---- MODULE Spec2Model ----
(***************************************************************************)
(* Remote execution and job scheduling of xespresso.                       *)
(*                                                                         *)
(*   SpecPool : the class-level session pool of RemoteExecutionMixin       *)
(*              (schedulers/remote_mixin.py) over RemoteAuth               *)
(*              (utils/auth.py).                                           *)
(*   SpecRun  : one scheduler running RemoteExecutionMixin.run(), or one   *)
(*              of its helpers _wait_for_slurm_completion and              *)
(*              _verify_and_retrieve_output_file, one remote call a step.  *)
(*   SpecConn : the persistent connection of one RemoteRunner              *)
(*              (remote_runner.py).                                        *)
(*   SpecQueue: set_queue (scheduler.py) with check_slurm_available        *)
(*              (utils/slurm.py).                                          *)
(***************************************************************************)
EXTENDS Integers, Sequences, FiniteSets, TLC

(***************************************************************************)
(* Bounds of the model.                                                    *)
(***************************************************************************)
NumInst == 2
MaxSessions == 2
MaxCalls == 2
MaxInvocations == 1
MaxTimeout == 2
MaxRetriesArg == 3
MaxAssets == 1
MaxConnRetries == 2
MaxConnCalls == 2
MaxQueueCalls == 2
MaxModules == 2
MaxAuthOps == 3
MaxEntries == 2
MaxAssetRuns == 2
MaxJobs == 2
MaxJobTimeout == 1

(***************************************************************************)
(* Values.                                                                 *)
(***************************************************************************)
Hosts == {"hostA", "hostB"}
Users == {"userX", "userY"}
Keys == Hosts \X Users
Insts == 1..NumInst
SessionIds == 1..MaxSessions
NoSession == 0
AuthMethods == {"key", "password"}
RemoteDirs == {"/home/user"}
RelDirs == {"calc1"}
AbsDirs == {"/tmp/calc3"}
CalcDirs == RelDirs \cup AbsDirs
None == <<>>

VARIABLES
    remote_sessions,        \* RemoteExecutionMixin._remote_sessions: key -> session (0 = absent)
    auths,                  \* the RemoteAuth objects constructed so far, by identity
    numAuth,                \* how many RemoteAuth objects were constructed
    remote,                 \* scheduler.remote of each scheduler instance (0 = not set)
    remote_path,            \* scheduler.remote_path of each instance (None = not set)
    inst_last_remote_path,  \* the instance attribute _last_remote_path, once assigned
    has_inst_last,          \* whether the instance attribute shadows the class attribute
    cls_last_remote_path,   \* RemoteExecutionMixin._last_remote_path (class attribute)
    numCalls,               \* how many _setup_remote calls were made
    hist,                   \* per key, since the pool was last emptied: what _setup_remote did
    last_setup,             \* the last _setup_remote call: instance, key, outcome, and
                            \* remote_dir and calc.directory as read at line 56
                            \* ("" when the call raised before)
    last_close              \* how close_all_connections ended, while it is the last
                            \* operation on the pool ("none" otherwise)

poolVars == <<remote_sessions, auths, numAuth, remote, remote_path,
              inst_last_remote_path, has_inst_last, cls_last_remote_path,
              numCalls, hist, last_setup, last_close>>

VARIABLES
    pc,             \* where the running call stands
    entry,          \* the function that was called: "run", "wait" or "verify"
    invocations,    \* how many calls were started
    queue,          \* self.queue: execution, scheduler, job_timeout
    run_inst,       \* the scheduler instance the call runs on
    calc_control,   \* calc.parameters["input_data"]: CONTROL section and its pseudo_dir
    assets_left,    \* pseudopotentials not yet handled by _transfer_pseudopotentials
    warnings,       \* the warnings.warn calls of this call, in order: what and
                    \* for which pseudopotential of the loop
    ops,            \* the remote operations of this call, in order
    now,            \* time.time(), in ticks
    start_time,     \* start_time of _wait_for_slurm_completion
    last_elapsed,   \* elapsed time seen by the last timeout check (-1 = none yet)
    job_id,         \* the job id given to _wait_for_slurm_completion ("" = None)
    submit_out,     \* (stdout, stderr) of the submission command
    max_retries,    \* max_retries of _verify_and_retrieve_output_file
    attempt,        \* loop variable of the retrieval loop
    sleeps,         \* the time.sleep durations of the retrieval loop, in order
    exit,           \* how the call ended
    job_stuck,      \* the job of this wait never leaves the live queue
    job_state,      \* job_state of _wait_for_slurm_completion ("" = never assigned)
    wait_exit,      \* how _wait_for_slurm_completion ended ("none" = it has not)
    check_out,      \* stdout of the output file check ("none" = not run)
    status_stdout,  \* stdout of the live-queue query the polling loop is acting
                    \* on ("none" outside of that)
    remote_dir,     \* the remote machine: "none", "work" (remote_path exists) or
                    \* "both" (remote_path and remote_path/pseudo exist)
    mkdir_res       \* _transfer_pseudopotentials: what its mkdir command came to,
                    \* while the function runs

waitVars == <<job_stuck, job_state, wait_exit, check_out, status_stdout>>

fsVars == <<remote_dir, mkdir_res>>

VARIABLES
    assets,         \* the pseudopotentials the loop has handled, in order: found,
                    \* checksums equal, number of send_file calls
    logged          \* the logger.warning records of run()'s submission step

recVars == <<assets, logged>>

runVars == <<waitVars, fsVars, recVars, pc, entry, invocations, queue, run_inst, calc_control, assets_left,
             warnings, ops, now, start_time, last_elapsed, job_id,
             submit_out, max_retries, attempt, sleeps, exit>>

VARIABLES
    client,         \* RemoteRunner.client: "none", "open", "dead" (transport gone)
                    \* or "closed" (close() was called on it)
    sftp,           \* RemoteRunner.sftp
    is_connected,   \* RemoteRunner.is_connected
    key_path,       \* whether a key is configured
    password,       \* whether a password is configured
    handshakes,     \* authentications that succeeded
    c_pc,           \* where the running _connect stands
    c_calls,        \* how many _connect calls were started
    c_retries,      \* the retries argument
    c_attempt,      \* the loop variable attempt
    c_log,          \* what the running _connect did, in order
    c_exit          \* how the _connect ended

connVars == <<client, sftp, is_connected, key_path, password, handshakes,
              c_pc, c_calls, c_retries, c_attempt, c_log, c_exit>>

VARIABLES
    sq_pc,          \* where the running set_queue stands
    sq_calls,       \* how many set_queue calls were started
    sq_queue,       \* the queue dictionary: scheduler and execution ("absent" = no key)
    sq_check,       \* what check_slurm_available came to ("not_called" = not called)
    sq_ops,         \* what the running set_queue did, in order
    sq_written,     \* whether the running set_queue wrote a job script
    sq_before,      \* calc.scheduler and calc.command when set_queue was called
    sq_exit,        \* how the set_queue ended
    calc_scheduler, \* calc.scheduler: the kind of the stored scheduler ("none" = unset)
    calc_command    \* calc.command

queueVars == <<sq_pc, sq_calls, sq_queue, sq_check, sq_ops, sq_written, sq_before,
               sq_exit, calc_scheduler, calc_command>>

VARIABLES
    mgr,            \* how RemoteJobManager(...) with the runner's credentials ended
    tool_in,        \* the call of a stand-alone operation: its name and arguments
    tool_out        \* what that call did and how it ended (None = not made yet)

toolVars == <<mgr, tool_in, tool_out>>

VARIABLES
    t_pc,           \* per thread: where its _setup_remote stands
    t_key,          \* per thread: key of its _setup_remote
    t_new,          \* per thread: the local variable remote (0 = unbound)
    inserts         \* the insertions into the pool made by threads, in order

raceVars == <<t_pc, t_key, t_new, inserts>>

VARIABLES
    auth,           \* one RemoteAuth object used on its own
    auth_log        \* the calls made on it, in order: method, how it ended, and
                    \* whether it attempted a handshake

authVars == <<auth, auth_log>>

VARIABLES
    a_pc,           \* where the run() of the calculator stands
    a_runs,         \* how many run() calls were started on the calculator
    a_control,      \* calc.parameters["input_data"]: "absent" (no CONTROL section),
                    \* "no_pseudo_dir", or the pseudo_dir of CONTROL
    a_environ,      \* os.environ["ESPRESSO_PSEUDO"] ("" = not set)
    a_pseudos,      \* calc.parameters["pseudopotentials"]: the file of each
                    \* species, in the order of the dictionary
    a_fs,           \* the local files that exist: pairs of directory and file
    a_local_input,  \* the pseudo_dir written in the local input file
    a_remote_input, \* the pseudo_dir in the input file of the remote directory
                    \* ("none" = no input file was uploaded)
    a_log,          \* what the running run() did, in order
    a_search        \* per run() that got there: CONTROL as it was read and the
                    \* search_dirs built from it

assetVars == <<a_pc, a_runs, a_control, a_environ, a_pseudos, a_fs, a_local_input,
               a_remote_input, a_log, a_search>>

VARIABLES
    j_pc,           \* where the running call of the job manager stands
    j_history,      \* job_manager.RemoteJobManager.job_history
    j_active,       \* active_jobs: job id -> position of its job_info in
                    \* job_history (0 = no such key)
    j_wait,         \* the running wait_for_job: job id, timeout, and what
                    \* active_jobs held for the job when it was called
    j_now,          \* time.time(), in ticks
    j_start,        \* start_time of wait_for_job
    j_seen,         \* the running wait_for_job: how many statuses it was given,
                    \* and the last of them
    j_exit          \* how the last wait_for_job ended

jobVars == <<j_pc, j_history, j_active, j_wait, j_now, j_start, j_seen, j_exit>>

moreVars == <<assetVars, jobVars>>

extVars == <<toolVars, raceVars, authVars, moreVars>>

vars == <<poolVars, runVars, connVars, queueVars, extVars>>

(***************************************************************************)
(* RemoteAuth (utils/auth.py).                                             *)
(***************************************************************************)
\* queue["remote_auth"]: the port and the private key of a queue; the first
\* of each is what RemoteAuth.__init__ takes when the key is absent
Ports == {22, 2222}
SshKeys == {"~/.ssh/id_rsa", "~/.ssh/id_hpc"}
AuthConfigs == [port : Ports, ssh_key : SshKeys]
DefaultAuthConfig == [port |-> 22, ssh_key |-> "~/.ssh/id_rsa"]

\* RemoteAuth.__init__: client and sftp start as None.
NewAuth(k) == [host |-> k[1], user |-> k[2], port |-> DefaultAuthConfig.port,
               ssh_key |-> DefaultAuthConfig.ssh_key, client |-> FALSE,
               sftp |-> FALSE, live |-> FALSE, handshakes |-> 0, closed |-> FALSE]

BlankAuth == [host |-> "", user |-> "", port |-> 0, ssh_key |-> "",
              client |-> FALSE, sftp |-> FALSE,
              live |-> FALSE, handshakes |-> 0, closed |-> FALSE]

\* RemoteAuth(username, host, auth_config) (lines 51-56): port and ssh_key
\* are read from the auth_config of the queue that constructs the object
AuthFor(k, cfg) == [NewAuth(k) EXCEPT !.port = cfg.port, !.ssh_key = cfg.ssh_key]

\* RemoteAuth.__init__ raises ValueError for every method but "key".
AuthInitRaises(method) == method # "key"

\* RemoteAuth.connect: returns at once when self.client is set.
ConnectIsNoop(a) == a.client

\* RemoteAuth.connect on an object without client: self.client is assigned
\* before the handshake; on success the SFTP channel is opened.
ConnectResult(a, ok) ==
    IF ConnectIsNoop(a) THEN a
    ELSE IF ok THEN [a EXCEPT !.client = TRUE, !.sftp = TRUE, !.live = TRUE,
                              !.handshakes = @ + 1]
    ELSE [a EXCEPT !.client = TRUE]

\* RemoteAuth.close: closes the channel and the client; the fields stay set.
CloseResult(a) == [a EXCEPT !.live = FALSE, !.closed = TRUE]

\* RemoteAuth.close raising RuntimeError: sftp.close() or client.close() failed
\* and the session was not closed.
CloseRaised(a) == a

\* the key of the RemoteAuth object that is used on its own
AuthKey == <<"hostA", "userX">>

\* connect() on the object (lines 64-82): a call that finds self.client set
\* returns at once; otherwise the handshake is attempted
AuthConnect ==
    \E ok \in BOOLEAN :
        /\ Len(auth_log) < MaxAuthOps
        /\ auth' = ConnectResult(auth, ok)
        /\ auth_log' = Append(auth_log,
                              <<"connect",
                                IF ConnectIsNoop(auth) \/ ok THEN "returned"
                                ELSE "RuntimeError",
                                ~ConnectIsNoop(auth)>>)
        /\ UNCHANGED <<poolVars, runVars, connVars, queueVars, toolVars, raceVars, moreVars>>

\* run_command, send_file and retrieve_file (lines 84-115): self.connect(),
\* then the command on self.client or the transfer on self.sftp; every
\* exception leaves as RuntimeError
AuthUse ==
    \E op \in {"run_command", "send_file", "retrieve_file"}, ok \in BOOLEAN :
        LET a == ConnectResult(auth, ok)
            connected == ConnectIsNoop(auth) \/ ok
            usable == a.live /\ (op = "run_command" \/ a.sftp)
        IN  /\ Len(auth_log) < MaxAuthOps
            /\ auth' = a
            /\ auth_log' = Append(auth_log,
                                  <<op,
                                    IF connected /\ usable THEN "returned"
                                    ELSE "RuntimeError",
                                    ~ConnectIsNoop(auth)>>)
            /\ UNCHANGED <<poolVars, runVars, connVars, queueVars, toolVars, raceVars, moreVars>>

\* close() (lines 131-142): closes what is set, resets nothing
AuthClose ==
    \E raised \in BOOLEAN :
        /\ Len(auth_log) < MaxAuthOps
        /\ raised => auth.client
        /\ auth' = IF ~auth.client \/ raised THEN CloseRaised(auth)
                   ELSE CloseResult(auth)
        /\ auth_log' = Append(auth_log,
                              <<"close", IF raised THEN "RuntimeError" ELSE "returned",
                                FALSE>>)
        /\ UNCHANGED <<poolVars, runVars, connVars, queueVars, toolVars, raceVars, moreVars>>

\* the connection of the object fails (network drop, server restart)
AuthDies ==
    /\ auth.live
    /\ auth' = [auth EXCEPT !.live = FALSE]
    /\ UNCHANGED auth_log
    /\ UNCHANGED <<poolVars, runVars, connVars, queueVars, toolVars, raceVars, moreVars>>

InitAuth ==
    /\ auth = NewAuth(AuthKey)
    /\ auth_log = <<>>

(***************************************************************************)
(* RemoteExecutionMixin._setup_remote                                      *)
(***************************************************************************)
\* os.path.join(remote_dir, calc.directory): an absolute second component
\* replaces the first.
PathJoin(base, dir) == IF dir \in AbsDirs THEN <<dir>> ELSE <<base, dir>>

\* self._remote_sessions[key] = remote (line 53)
PoolInsert_Clobber(k, s) == [kk \in Keys |-> IF kk = k THEN s ELSE NoSession]

PoolInsert_KeepFirst(k, s) ==
    IF remote_sessions[k] = NoSession THEN [remote_sessions EXCEPT ![k] = s]
    ELSE remote_sessions

PoolInsert(k, s) == [remote_sessions EXCEPT ![k] = s]

\* lines 52-53: the session is put into the pool after connect() returned;
\* when connect() raised, the assignment is not reached
PoolAfterConnect_InsertFirst(k, s, ok) == PoolInsert(k, s)

PoolAfterConnect(k, s, ok) == IF ok THEN PoolInsert(k, s) ELSE remote_sessions

NoClose == "none"

\* if key not in self._remote_sessions
KeyMissing_AlwaysNew(k) == TRUE

KeyMissing_Probing(k) ==
    remote_sessions[k] = NoSession \/ ~auths[remote_sessions[k]].live

KeyMissing(k) == remote_sessions[k] = NoSession

\* self._last_remote_path as read through instance i: the instance attribute
\* when it was assigned, the class attribute otherwise.
LastRemotePath(i) ==
    IF has_inst_last[i] THEN inst_last_remote_path[i] ELSE cls_last_remote_path

NewHist == [calls |-> 0, constructed |-> 0, connects |-> 0, failed |-> FALSE,
            handed |-> {}]

\* lines 56-59: the remote path of instance i
SetupPath_Shared(i, base, dir) ==
    LET current_path == PathJoin(base, dir) IN
    IF \E j \in Insts : has_inst_last[j] /\ inst_last_remote_path[j] = current_path
    THEN UNCHANGED <<remote_path, inst_last_remote_path, has_inst_last>>
    ELSE /\ remote_path' = [remote_path EXCEPT ![i] = current_path]
         /\ inst_last_remote_path' = [inst_last_remote_path EXCEPT ![i] = current_path]
         /\ has_inst_last' = [has_inst_last EXCEPT ![i] = TRUE]

SetupPath(i, base, dir) ==
    LET current_path == PathJoin(base, dir) IN
    IF current_path # LastRemotePath(i)
    THEN /\ remote_path' = [remote_path EXCEPT ![i] = current_path]
         /\ inst_last_remote_path' = [inst_last_remote_path EXCEPT ![i] = current_path]
         /\ has_inst_last' = [has_inst_last EXCEPT ![i] = TRUE]
    ELSE UNCHANGED <<remote_path, inst_last_remote_path, has_inst_last>>

\* The whole of _setup_remote for instance i whose queue names key k.
\* method is queue["remote_auth"]["method"], cfg the port and key of
\* queue["remote_auth"], ok the outcome of the handshake.
SetupRemoteBody(i, k, method, cfg, ok, base, dir) ==
    /\ numCalls < MaxCalls
    /\ numCalls' = numCalls + 1
    /\ last_close' = NoClose
    /\ UNCHANGED cls_last_remote_path
    /\ IF KeyMissing(k)
       THEN /\ numAuth < MaxSessions
            /\ IF AuthInitRaises(method)
               THEN \* ValueError out of RemoteAuth(...): nothing was constructed
                    /\ UNCHANGED <<remote_sessions, auths, numAuth, remote, remote_path,
                                   inst_last_remote_path, has_inst_last>>
                    /\ hist' = [hist EXCEPT ![k].calls = @ + 1, ![k].failed = TRUE]
                    /\ last_setup' = [inst |-> i, key |-> k, result |-> "value_error",
                                      session |-> NoSession, handshake |-> FALSE,
                                      live |-> FALSE, remote_dir |-> "",
                                      directory |-> "", cfg |-> cfg]
               ELSE LET s == numAuth + 1
                        a == ConnectResult(AuthFor(k, cfg), ok) IN
                    /\ numAuth' = s
                    /\ auths' = [auths EXCEPT ![s] = a]
                    /\ IF ok
                       THEN /\ remote_sessions' = PoolAfterConnect(k, s, TRUE)
                            /\ remote' = [remote EXCEPT ![i] = s]
                            /\ SetupPath(i, base, dir)
                            /\ hist' = [hist EXCEPT ![k].calls = @ + 1,
                                                    ![k].constructed = @ + 1,
                                                    ![k].connects = @ + 1,
                                                    ![k].handed = @ \cup {s}]
                            /\ last_setup' = [inst |-> i, key |-> k, result |-> "ok",
                                              session |-> s, handshake |-> TRUE,
                                              live |-> a.live, remote_dir |-> base,
                                              directory |-> dir, cfg |-> cfg]
                       ELSE \* RuntimeError out of connect(): the pool is not touched
                            /\ remote_sessions' = PoolAfterConnect(k, s, FALSE)
                            /\ UNCHANGED <<remote, remote_path,
                                           inst_last_remote_path, has_inst_last>>
                            /\ hist' = [hist EXCEPT ![k].calls = @ + 1,
                                                    ![k].constructed = @ + 1,
                                                    ![k].connects = @ + 1,
                                                    ![k].failed = TRUE]
                            /\ last_setup' = [inst |-> i, key |-> k,
                                              result |-> "connect_error",
                                              session |-> NoSession, handshake |-> FALSE,
                                              live |-> FALSE, remote_dir |-> "",
                                              directory |-> "", cfg |-> cfg]
       ELSE LET s == remote_sessions[k] IN
            /\ UNCHANGED <<remote_sessions, auths, numAuth>>
            /\ remote' = [remote EXCEPT ![i] = s]
            /\ SetupPath(i, base, dir)
            /\ hist' = [hist EXCEPT ![k].calls = @ + 1, ![k].handed = @ \cup {s}]
            /\ last_setup' = [inst |-> i, key |-> k, result |-> "ok",
                              session |-> s, handshake |-> FALSE,
                              live |-> auths[s].live, remote_dir |-> base,
                              directory |-> dir, cfg |-> cfg]

SetupRemote ==
    \E i \in Insts, k \in Keys, method \in AuthMethods, ok \in BOOLEAN,
       base \in RemoteDirs, dir \in CalcDirs :
        /\ SetupRemoteBody(i, k, method, DefaultAuthConfig, ok, base, dir)
        /\ UNCHANGED <<runVars, connVars, queueVars, extVars>>

\* the schedulers of one machine and user whose queues differ in port and key
CredKeys == {<<"hostA", "userX">>}

\* _setup_remote of a scheduler whose queue names any port and any key
SetupRemoteAny ==
    \E i \in Insts, k \in CredKeys, method \in AuthMethods, cfg \in AuthConfigs,
       ok \in BOOLEAN, base \in RemoteDirs, dir \in RelDirs :
        /\ SetupRemoteBody(i, k, method, cfg, ok, base, dir)
        /\ UNCHANGED <<runVars, connVars, queueVars, extVars>>

\* The sessions of the pool: the values of the dictionary. They are visited in
\* insertion order, which is the order of their construction.
Pooled == {remote_sessions[k] : k \in Keys} \ {NoSession}

\* RemoteExecutionMixin.close_all_connections (lines 256-261). raising is the
\* session whose close() raises, NoSession when none does: the sessions
\* before it are closed and the RuntimeError leaves the method, the pool and
\* _last_remote_path as they were.
CloseAllConnections ==
    /\ UNCHANGED <<numCalls, last_setup>>
    /\ UNCHANGED <<runVars, connVars, queueVars, extVars>>
    /\ UNCHANGED <<numAuth, remote, remote_path, inst_last_remote_path, has_inst_last>>
    /\ \E raising \in Pooled \cup {NoSession} :
        IF raising = NoSession
        THEN /\ auths' = [s \in SessionIds |->
                             IF s \in Pooled THEN CloseResult(auths[s]) ELSE auths[s]]
             /\ remote_sessions' = [k \in Keys |-> NoSession]
             /\ cls_last_remote_path' = None
             /\ hist' = [k \in Keys |-> NewHist]
             /\ last_close' = "returned"
        ELSE /\ auths' = [s \in SessionIds |->
                             IF s \in Pooled /\ s < raising THEN CloseResult(auths[s])
                             ELSE IF s = raising THEN CloseRaised(auths[s])
                             ELSE auths[s]]
             /\ last_close' = "raised"
             /\ UNCHANGED <<remote_sessions, cls_last_remote_path, hist>>

\* The transport of a connected session dies (network drop, server restart).
SessionDies ==
    \E s \in SessionIds :
        /\ s <= numAuth
        /\ auths[s].live
        /\ auths' = [auths EXCEPT ![s].live = FALSE]
        /\ UNCHANGED <<remote_sessions, numAuth, remote, remote_path,
                       inst_last_remote_path, has_inst_last, cls_last_remote_path,
                       numCalls, hist, last_setup, last_close>>
        /\ UNCHANGED <<runVars, connVars, queueVars, extVars>>

(***************************************************************************)
(* _setup_remote called by the threads of one process, each on a scheduler *)
(* instance of its own, with no lock: one access to the shared pool a      *)
(* step. Thread i runs on instance i.                                      *)
(***************************************************************************)
Threads == {1, 2}

\* the call and the test of line 46
ThreadCall(i) ==
    \E k \in Keys :
        /\ t_pc[i] = "idle"
        /\ numCalls < MaxCalls
        /\ numCalls' = numCalls + 1
        /\ t_key' = [t_key EXCEPT ![i] = k]
        /\ t_pc' = [t_pc EXCEPT ![i] = IF KeyMissing(k) THEN "auth" ELSE "assign"]
        /\ UNCHANGED <<t_new, inserts>>
        /\ UNCHANGED <<remote_sessions, auths, numAuth, remote, remote_path,
                       inst_last_remote_path, has_inst_last, cls_last_remote_path,
                       hist, last_setup, last_close>>

\* lines 47-52: remote = RemoteAuth(...); remote.connect()
ThreadAuth(i) ==
    \E ok \in BOOLEAN :
        LET s == numAuth + 1 IN
        /\ t_pc[i] = "auth"
        /\ numAuth < MaxSessions
        /\ numAuth' = s
        /\ auths' = [auths EXCEPT ![s] = ConnectResult(NewAuth(t_key[i]), ok)]
        /\ IF ok
           THEN /\ t_new' = [t_new EXCEPT ![i] = s]
                /\ t_pc' = [t_pc EXCEPT ![i] = "insert"]
           ELSE \* RuntimeError out of connect()
                /\ t_pc' = [t_pc EXCEPT ![i] = "idle"]
                /\ UNCHANGED t_new
        /\ UNCHANGED <<t_key, inserts>>
        /\ UNCHANGED <<remote_sessions, remote, remote_path, inst_last_remote_path,
                       has_inst_last, cls_last_remote_path, numCalls, hist,
                       last_setup, last_close>>

\* line 53: self._remote_sessions[key] = remote
ThreadInsert(i) ==
    /\ t_pc[i] = "insert"
    /\ remote_sessions' = PoolInsert(t_key[i], t_new[i])
    /\ inserts' = Append(inserts, <<t_key[i], t_new[i]>>)
    /\ last_close' = NoClose
    /\ t_pc' = [t_pc EXCEPT ![i] = "assign"]
    /\ UNCHANGED <<t_key, t_new>>
    /\ UNCHANGED <<auths, numAuth, remote, remote_path, inst_last_remote_path,
                   has_inst_last, cls_last_remote_path, numCalls, hist, last_setup>>

\* line 54: self.remote = self._remote_sessions[key], a KeyError when the
\* pool was emptied in between; then the path of lines 56-59
ThreadAssign(i) ==
    \E base \in RemoteDirs, dir \in CalcDirs :
        /\ t_pc[i] = "assign"
        /\ IF remote_sessions[t_key[i]] = NoSession
           THEN UNCHANGED <<remote, remote_path, inst_last_remote_path, has_inst_last>>
           ELSE /\ remote' = [remote EXCEPT ![i] = remote_sessions[t_key[i]]]
                /\ SetupPath(i, base, dir)
        /\ t_pc' = [t_pc EXCEPT ![i] = "idle"]
        /\ t_new' = [t_new EXCEPT ![i] = NoSession]
        /\ UNCHANGED <<t_key, inserts>>
        /\ UNCHANGED <<remote_sessions, auths, numAuth, cls_last_remote_path,
                       numCalls, hist, last_setup, last_close>>

ThreadStep ==
    \E i \in Threads :
        /\ ThreadCall(i) \/ ThreadAuth(i) \/ ThreadInsert(i) \/ ThreadAssign(i)
        /\ UNCHANGED <<runVars, connVars, queueVars, toolVars, authVars, moreVars>>

InitRace ==
    /\ t_pc = [i \in Insts |-> "idle"]
    /\ t_key = [i \in Insts |-> <<"", "">>]
    /\ t_new = [i \in Insts |-> NoSession]
    /\ inserts = <<>>

InitPool ==
    /\ remote_sessions = [k \in Keys |-> NoSession]
    /\ auths = [s \in SessionIds |-> BlankAuth]
    /\ numAuth = 0
    /\ remote = [i \in Insts |-> NoSession]
    /\ remote_path = [i \in Insts |-> None]
    /\ inst_last_remote_path = [i \in Insts |-> None]
    /\ has_inst_last = [i \in Insts |-> FALSE]
    /\ cls_last_remote_path = None
    /\ numCalls = 0
    /\ hist = [k \in Keys |-> NewHist]
    /\ last_setup = [inst |-> 0, key |-> <<"", "">>, result |-> "none",
                     session |-> NoSession, handshake |-> FALSE, live |-> FALSE,
                     remote_dir |-> "", directory |-> "",
                     cfg |-> DefaultAuthConfig]
    /\ last_close = NoClose

(***************************************************************************)
(* RemoteExecutionMixin.run and its helpers, one remote call a step.       *)
(***************************************************************************)
Schedulers == {"slurm", "direct", "pbs"}
Executions == {"remote", "local"}
Timeouts == 0..MaxTimeout
SleepTicks == 2                 \* time.sleep(10) of the polling loop: 2 ticks of 5 s
MaxClock == MaxTimeout + SleepTicks + 2
DefaultMaxRetries == 3
CmdTimes == {0, 1}              \* ticks the submission command may take
Controls == {"absent", "no_pseudo_dir", "user_dir", "./pseudo"}
Unread == "?"
\* the scheduler under run(): its instance, its queue's machine, its directories
RunInst == 1
RunKeys == {<<"hostA", "userX">>}
RunDirs == {"calc1"}

\* stdout of the submission command, as words: what sbatch prints, what qsub
\* prints (<id>.<server>), or nothing
SubmitStdouts == {
    <<"Submitted", "batch", "job", "4711">>,
    <<"sbatch:", "Submitted", "batch", "job", "42", "Submitted", "batch", "job", "4711">>,
    <<"Submitted", "batch", "job", "abc">>,
    <<"4711.pbs01">>,
    <<>> }
SubmitStderrs == {"", "sbatch: error"}
DigitWords == {"4711", "42"}

\* stdout of squeue -j <id> -h -o '%T'
SqueueStdouts == {"", " \n", "RUNNING\n", "PENDING\n"}

\* stdout of sacct -j <id> -n -o State --parsable2, as lines
SacctStates == {"COMPLETED", "COMPLETING", "FAILED", "CANCELLED", "TIMEOUT"}
SacctStdouts ==
    {<<>>, <<"">>, <<"", "COMPLETED">>, <<"COMPLETED", "COMPLETED">>,
     <<"FAILED", "COMPLETED">>, <<"COMPLETED", "FAILED">>}
    \cup {<<w>> : w \in SacctStates}

\* stdout of the output file check
CheckStdouts == {"exists\n", "missing\n", ""}

\* the directories of the remote machine that concern one run
RemoteDirStates == {"none", "work", "both"}

NoMkdir == [status |-> -1, before |-> "none"]

\* mkdir <remote_path>/pseudo on a machine in state d: fails when the parent
\* is missing and when the directory exists
MkdirCmd_NoParents(d) ==
    IF d = "work" THEN [status |-> 0, dir |-> "both"] ELSE [status |-> 1, dir |-> d]

\* mkdir -p <remote_path>/pseudo (line 72): creates the missing parents and
\* succeeds on a directory that exists
MkdirCmd(d) == [status |-> 0, dir |-> "both"]

\* sftp.put into remote_path (need = "work") or remote_path/pseudo ("both"):
\* it raises when the directory is not there
PutFails(need) == IF need = "both" THEN remote_dir # "both" ELSE remote_dir = "none"

NoExit == [kind |-> "none", job |-> "", state |-> "", timeout |-> -1,
           attempts |-> -1, path |-> None]

Min(a, b) == IF a < b THEN a ELSE b

RECURSIVE Pow2(_)
\* 2 ** n
Pow2(n) == IF n <= 0 THEN 1 ELSE 2 * Pow2(n - 1)

\* str.strip() of a one-line output: whitespace only becomes empty
Strip_Identity(s) == s

Strip(s) == IF s \in {"", " \n"} THEN ""
            ELSE IF s = "RUNNING\n" THEN "RUNNING"
            ELSE IF s = "PENDING\n" THEN "PENDING"
            ELSE s

RECURSIVE DropBlankHead(_)
DropBlankHead(ls) ==
    IF ls = <<>> THEN <<>>
    ELSE IF Head(ls) = "" THEN DropBlankHead(Tail(ls)) ELSE ls

RECURSIVE DropBlankLast(_)
DropBlankLast(ls) ==
    IF ls = <<>> THEN <<>>
    ELSE IF ls[Len(ls)] = "" THEN DropBlankLast(SubSeq(ls, 1, Len(ls) - 1)) ELSE ls

\* sacct_stdout.strip(), on lines: blank lines at both ends go
StripLines(ls) == DropBlankLast(DropBlankHead(ls))

\* sacct_stdout.strip().split('\n')[0]
FirstState(ls) == Head(StripLines(ls))

\* job_state not in ["COMPLETED", "COMPLETING"]
IsFailureState(st) == st \notin {"COMPLETED", "COMPLETING"}

\* re.search(r"Submitted batch job (\d+)", stdout): the first match, "" for None
ExtractJobId(out) ==
    LET hits == {i \in 1..Len(out) :
                    /\ i + 3 <= Len(out)
                    /\ out[i] = "Submitted" /\ out[i + 1] = "batch"
                    /\ out[i + 2] = "job" /\ out[i + 3] \in DigitWords}
    IN IF hits = {} THEN ""
       ELSE LET i == CHOOSE h \in hits : \A g \in hits : h <= g IN out[i + 3]

\* time.time() - start_time > timeout
TimedOut_Never(elapsed, timeout) == FALSE

TimedOut(elapsed, timeout) == elapsed > timeout

\* "missing" in stdout
ContainsMissing_Never(out) == FALSE

ContainsMissing(out) == out = "missing\n"

\* attempt < max_retries - 1
HasRetryLeft_OffByOne(a, m) == a < m

HasRetryLeft(a, m) == a < m - 1

Terminal == pc \in {"idle", "done", "raised"}

\* an exception leaves the running call: nothing in run() or its helpers
\* catches it, but the retrieval loop, which has its own step
Raise_Swallowed(e) == /\ pc' = "done"
                      /\ exit' = [NoExit EXCEPT !.kind = "returned"]

Raise(e) == /\ pc' = "raised"
            /\ exit' = e

\* a remote call made through RemoteAuth that raised RuntimeError
RemoteError == [NoExit EXCEPT !.kind = "remote_error"]

Tick(d) == Min(now + d, MaxClock)

StartCall(name) ==
    /\ Terminal
    /\ invocations < MaxInvocations
    /\ invocations' = invocations + 1
    /\ entry' = name
    /\ ops' = <<>>
    /\ warnings' = <<>>
    /\ assets' = <<>>
    /\ logged' = <<>>
    /\ sleeps' = <<>>
    /\ attempt' = 0
    /\ last_elapsed' = -1
    /\ exit' = NoExit
    /\ submit_out' = <<<<>>, "">>
    /\ job_stuck' = FALSE
    /\ job_state' = ""
    /\ wait_exit' = "none"
    /\ check_out' = "none"
    /\ status_stdout' = "none"
    /\ mkdir_res' = NoMkdir
    /\ UNCHANGED remote_dir

\* scheduler.run() is called (lines 130-131)
RunCall ==
    \E ex \in Executions :
        /\ StartCall("run")
        /\ run_inst' = RunInst
        /\ queue' = [execution |-> ex, scheduler |-> Unread, job_timeout |-> -1]
        /\ assets_left' = 0
        /\ max_retries' = DefaultMaxRetries
        /\ job_id' = ""
        /\ now' = 0
        /\ start_time' = 0
        /\ pc' = IF ex # "remote" THEN "delegated" ELSE "r_setup"
        /\ UNCHANGED calc_control
        /\ UNCHANGED <<poolVars, connVars, queueVars, extVars>>

\* return super().run(): local execution is not this module's business
RunDelegated ==
    /\ pc = "delegated"
    /\ pc' = "done"
    /\ exit' = [NoExit EXCEPT !.kind = "delegated"]
    /\ UNCHANGED waitVars
    /\ UNCHANGED <<poolVars, connVars, queueVars, extVars>>
    /\ UNCHANGED recVars
    /\ UNCHANGED fsVars
    /\ UNCHANGED <<entry, invocations, queue, run_inst, calc_control, assets_left,
                   warnings, ops, now, start_time, last_elapsed, job_id,
                   submit_out, max_retries, attempt, sleeps>>

\* self._setup_remote() (line 133)
RunSetup ==
    /\ pc = "r_setup"
    /\ \E k \in RunKeys, method \in AuthMethods, ok \in BOOLEAN,
          base \in RemoteDirs, dir \in RunDirs :
            SetupRemoteBody(run_inst, k, method, DefaultAuthConfig, ok, base, dir)
    /\ ops' = Append(ops, "setup")
    /\ UNCHANGED <<connVars, queueVars, extVars>>
    /\ UNCHANGED recVars
    /\ UNCHANGED fsVars
    /\ IF last_setup'.result = "ok"
       THEN pc' = "r_mkdir" /\ UNCHANGED exit
       ELSE Raise([NoExit EXCEPT !.kind = last_setup'.result])
    /\ UNCHANGED waitVars
    /\ UNCHANGED <<entry, invocations, queue, run_inst, calc_control, assets_left,
                   warnings, now, start_time, last_elapsed, job_id,
                   submit_out, max_retries, attempt, sleeps>>

\* _transfer_pseudopotentials: the pseudopotentials of the calculator are read
\* and mkdir -p <remote_path>/pseudo is run (lines 70-72)
RunMkdir ==
    /\ pc = "r_mkdir"
    /\ ops' = Append(ops, "mkdir")
    /\ \E raised \in BOOLEAN, n \in 0..MaxAssets :
        IF raised
        THEN n = 0 /\ Raise(RemoteError) /\ UNCHANGED <<assets_left, fsVars>>
        ELSE \* the command has run to its end; its status is not looked at
             /\ remote_dir' = MkdirCmd(remote_dir).dir
             /\ mkdir_res' = [status |-> MkdirCmd(remote_dir).status,
                              before |-> remote_dir]
             /\ assets_left' = n
             /\ pc' = IF n > 0 THEN "r_asset" ELSE "r_write_input"
             /\ UNCHANGED exit
    /\ UNCHANGED waitVars
    /\ UNCHANGED <<poolVars, connVars, queueVars, extVars>>
    /\ UNCHANGED recVars
    /\ UNCHANGED <<entry, invocations, queue, run_inst, calc_control,
                   warnings, now, start_time, last_elapsed, job_id,
                   submit_out, max_retries, attempt, sleeps>>

\* lines 84-104: the send_file calls made for one pseudopotential. The search
\* stops at the first directory that holds the file, whatever the checksums.
AssetSends_ResendOnMismatch(found, match) ==
    IF ~found THEN 0 ELSE IF match THEN 1 ELSE 2

AssetSends(found, match) == IF found THEN 1 ELSE 0

\* lines 94-95 and 105-106: the warnings.warn calls made for pseudopotential n
AssetWarnings_Repeated(found, match, n) ==
    IF ~found THEN << <<"not_found", n>> >>
    ELSE IF match THEN <<>>
    ELSE << <<"mismatch", n>>, <<"mismatch", n>> >>

AssetWarnings(found, match, n) ==
    IF ~found THEN << <<"not_found", n>> >>
    ELSE IF match THEN <<>>
    ELSE << <<"mismatch", n>> >>

\* n uploads, each followed by the remote checksum (lines 89-93)
RECURSIVE SendOps(_)
SendOps(n) == IF n <= 0 THEN <<>> ELSE <<"send_asset", "sha256">> \o SendOps(n - 1)

\* _transfer_pseudopotentials: one pseudopotential of the loop (lines 82-108);
\* found says whether one of the search directories holds the file
RunAsset ==
    /\ pc = "r_asset"
    /\ assets_left > 0
    /\ \E found \in BOOLEAN, raised \in BOOLEAN, match \in BOOLEAN :
        IF found /\ raised
        THEN \* send_file raises RuntimeError
             /\ match
             /\ ops' = Append(ops, "send_asset")
             /\ Raise(RemoteError)
             /\ UNCHANGED <<warnings, assets_left, assets>>
        ELSE \* uploaded, or not found: a warning at most, and the loop goes on
             /\ ~raised
             /\ ~found => match
             /\ found => ~PutFails("both")
             /\ ops' = ops \o SendOps(AssetSends(found, match))
             /\ warnings' = warnings \o AssetWarnings(found, match, Len(assets) + 1)
             /\ assets' = Append(assets, [found |-> found, match |-> match,
                                          sends |-> AssetSends(found, match)])
             /\ assets_left' = assets_left - 1
             /\ pc' = IF assets_left > 1 THEN "r_asset" ELSE "r_write_input"
             /\ UNCHANGED exit
    /\ UNCHANGED logged
    /\ UNCHANGED waitVars
    /\ UNCHANGED fsVars
    /\ UNCHANGED <<poolVars, connVars, queueVars, extVars>>
    /\ UNCHANGED <<entry, invocations, queue, run_inst, calc_control,
                   now, start_time, last_elapsed, job_id,
                   submit_out, max_retries, attempt, sleeps>>

\* _transfer_pseudopotentials: pseudo_dir = "./pseudo" and write_input (lines 110-111)
RunWriteInput ==
    /\ pc = "r_write_input"
    /\ IF calc_control = "absent"
       THEN \* KeyError: input_data has no CONTROL section
            /\ Raise([NoExit EXCEPT !.kind = "key_error"])
            /\ UNCHANGED calc_control
       ELSE /\ calc_control' = "./pseudo"
            /\ pc' = "r_send_input"
            /\ UNCHANGED exit
    /\ mkdir_res' = NoMkdir         \* the function is left
    /\ UNCHANGED remote_dir
    /\ UNCHANGED waitVars
    /\ UNCHANGED <<poolVars, connVars, queueVars, extVars>>
    /\ UNCHANGED recVars
    /\ UNCHANGED <<entry, invocations, queue, run_inst, assets_left,
                   warnings, ops, now, start_time, last_elapsed, job_id,
                   submit_out, max_retries, attempt, sleeps>>

\* self.remote.send_file(local_input, ...) (line 145)
RunSendInput ==
    /\ pc = "r_send_input"
    /\ ops' = Append(ops, "send_input")
    /\ \E raised \in BOOLEAN :
        IF raised THEN Raise(RemoteError)
        ELSE ~PutFails("work") /\ pc' = "r_send_job" /\ UNCHANGED exit
    /\ UNCHANGED fsVars
    /\ UNCHANGED waitVars
    /\ UNCHANGED <<poolVars, connVars, queueVars, extVars>>
    /\ UNCHANGED recVars
    /\ UNCHANGED <<entry, invocations, queue, run_inst, calc_control, assets_left,
                   warnings, now, start_time, last_elapsed, job_id,
                   submit_out, max_retries, attempt, sleeps>>

\* self.remote.send_file(local_job, ...) (line 146)
RunSendJob_Skipped ==
    /\ pc = "r_send_job"
    /\ pc' = "r_submit"
    /\ UNCHANGED waitVars
    /\ UNCHANGED <<poolVars, connVars, queueVars, extVars>>
    /\ UNCHANGED recVars
    /\ UNCHANGED fsVars
    /\ UNCHANGED <<entry, invocations, queue, run_inst, calc_control, assets_left,
                   warnings, ops, now, start_time, last_elapsed, job_id,
                   submit_out, max_retries, attempt, sleeps, exit>>

RunSendJob ==
    /\ pc = "r_send_job"
    /\ ops' = Append(ops, "send_job")
    /\ \E raised \in BOOLEAN :
        IF raised THEN Raise(RemoteError)
        ELSE ~PutFails("work") /\ pc' = "r_submit" /\ UNCHANGED exit
    /\ UNCHANGED fsVars
    /\ UNCHANGED waitVars
    /\ UNCHANGED <<poolVars, connVars, queueVars, extVars>>
    /\ UNCHANGED recVars
    /\ UNCHANGED <<entry, invocations, queue, run_inst, calc_control, assets_left,
                   warnings, now, start_time, last_elapsed, job_id,
                   submit_out, max_retries, attempt, sleeps>>

\* the submission command and the job id (lines 152-168); has_logger is
\* hasattr(self, "logger"), read when no job id was found (line 167)
RunSubmit ==
    /\ pc = "r_submit"
    /\ ops' = Append(ops, "submit")
    /\ \E raised \in BOOLEAN, out \in SubmitStdouts, err \in SubmitStderrs,
          d \in CmdTimes, sch \in Schedulers, has_logger \in BOOLEAN :
        IF raised
        THEN /\ out = <<>> /\ err = "" /\ d = 0 /\ sch = "slurm" /\ ~has_logger
             /\ Raise(RemoteError)
             /\ UNCHANGED <<submit_out, job_id, now, queue, logged>>
        ELSE /\ submit_out' = <<out, err>>
             /\ now' = Tick(d)
             /\ queue' = [queue EXCEPT !.scheduler = sch]
             /\ UNCHANGED exit
             /\ IF sch = "slurm"
                THEN IF ExtractJobId(out) # ""
                     THEN /\ ~has_logger
                          /\ job_id' = ExtractJobId(out)
                          /\ pc' = "w_begin"
                          /\ UNCHANGED logged
                     ELSE /\ logged' = IF has_logger THEN <<"no_job_id">> ELSE <<>>
                          /\ pc' = "v_check"
                          /\ UNCHANGED job_id
                ELSE /\ ~has_logger
                     /\ pc' = "v_check"
                     /\ UNCHANGED <<job_id, logged>>
    /\ UNCHANGED assets
    /\ UNCHANGED waitVars
    /\ UNCHANGED <<poolVars, connVars, queueVars, extVars>>
    /\ UNCHANGED fsVars
    /\ UNCHANGED <<entry, invocations, run_inst, calc_control, assets_left,
                   warnings, start_time, last_elapsed, max_retries, attempt, sleeps>>

(***************************************************************************)
(* RemoteExecutionMixin._wait_for_slurm_completion                         *)
(***************************************************************************)
\* _wait_for_slurm_completion(job_id) is called on its own
WaitCall ==
    \E id \in DigitWords :
        /\ StartCall("wait")
        /\ run_inst' = RunInst
        /\ queue' = [execution |-> "remote", scheduler |-> "slurm", job_timeout |-> -1]
        /\ job_id' = id
        /\ now' = 0
        /\ start_time' = 0
        /\ max_retries' = DefaultMaxRetries
        /\ pc' = "w_begin"
        /\ UNCHANGED calc_control
        /\ assets_left' = 0
        /\ UNCHANGED <<poolVars, connVars, queueVars, extVars>>

\* timeout = self.queue.get("job_timeout", 3600); start_time = time.time()
\* (lines 186-187)
WaitBegin ==
    /\ pc = "w_begin"
    /\ \E t \in Timeouts : queue' = [queue EXCEPT !.job_timeout = t]
    /\ job_stuck' \in BOOLEAN
    /\ start_time' = now
    /\ pc' = "w_check"
    /\ UNCHANGED <<job_state, wait_exit, check_out, status_stdout>>
    /\ UNCHANGED <<poolVars, connVars, queueVars, extVars>>
    /\ UNCHANGED recVars
    /\ UNCHANGED fsVars
    /\ UNCHANGED <<entry, invocations, run_inst, calc_control, assets_left,
                   warnings, ops, now, last_elapsed, job_id,
                   submit_out, max_retries, attempt, sleeps, exit>>

\* the function returns; run() goes on with the output file (line 171)
WaitReturns ==
    /\ wait_exit' = "returned"
    /\ IF entry = "run"
       THEN pc' = "v_check" /\ UNCHANGED exit
       ELSE pc' = "done" /\ exit' = [NoExit EXCEPT !.kind = "returned", !.job = job_id]

\* the error raised by the timeout check (lines 191-194)
TimeoutError_Cancelling ==
    /\ Raise([NoExit EXCEPT !.kind = "timeout", !.job = job_id,
                            !.timeout = queue.job_timeout])
    /\ wait_exit' = "timeout"
    /\ ops' = Append(ops, "scancel")

TimeoutError ==
    /\ Raise([NoExit EXCEPT !.kind = "timeout", !.job = job_id,
                            !.timeout = queue.job_timeout])
    /\ wait_exit' = "timeout"
    /\ UNCHANGED ops

\* the timeout check that opens every iteration (lines 190-194)
WaitCheck ==
    /\ pc = "w_check"
    /\ LET elapsed == now - start_time IN
       /\ last_elapsed' = elapsed
       /\ IF TimedOut(elapsed, queue.job_timeout)
          THEN TimeoutError
          ELSE pc' = "w_squeue" /\ UNCHANGED <<exit, wait_exit, ops>>
    /\ UNCHANGED <<job_stuck, job_state, check_out, status_stdout>>
    /\ UNCHANGED <<poolVars, connVars, queueVars, extVars>>
    /\ UNCHANGED recVars
    /\ UNCHANGED fsVars
    /\ UNCHANGED <<entry, invocations, queue, run_inst, calc_control, assets_left,
                   warnings, now, start_time, job_id,
                   submit_out, max_retries, attempt, sleeps>>

\* the live-queue query (lines 196-199)
WaitSqueue ==
    /\ pc = "w_squeue"
    /\ ops' = Append(ops, "squeue")
    /\ \E raised \in BOOLEAN, out \in SqueueStdouts :
        IF raised
        THEN /\ ~job_stuck /\ out = ""
             /\ Raise(RemoteError) /\ wait_exit' = "remote_error"
             /\ UNCHANGED status_stdout
        ELSE /\ job_stuck => Strip(out) # ""
             /\ status_stdout' = out
             /\ pc' = IF Strip(out) = "" THEN "w_sacct" ELSE "w_sleep"
             /\ UNCHANGED <<exit, wait_exit>>
    /\ UNCHANGED <<job_stuck, job_state, check_out>>
    /\ UNCHANGED <<poolVars, connVars, queueVars, extVars>>
    /\ UNCHANGED recVars
    /\ UNCHANGED fsVars
    /\ UNCHANGED <<entry, invocations, queue, run_inst, calc_control, assets_left,
                   warnings, now, start_time, last_elapsed, job_id,
                   submit_out, max_retries, attempt, sleeps>>

\* the accounting query and the classification of its state (lines 201-212)
WaitSacct ==
    /\ pc = "w_sacct"
    /\ ops' = Append(ops, "sacct")
    /\ \E raised \in BOOLEAN, out \in SacctStdouts :
        IF raised
        THEN /\ out = <<>>
             /\ Raise(RemoteError) /\ wait_exit' = "remote_error"
             /\ UNCHANGED job_state
        ELSE IF StripLines(out) = <<>>
        THEN \* no accounting record: the loop is left without a state
             WaitReturns /\ UNCHANGED job_state
        ELSE /\ job_state' = FirstState(out)
             /\ IF IsFailureState(FirstState(out))
                THEN /\ Raise([NoExit EXCEPT !.kind = "job_failed", !.job = job_id,
                                             !.state = FirstState(out)])
                     /\ wait_exit' = "job_failed"
                ELSE WaitReturns
    /\ status_stdout' = "none"
    /\ UNCHANGED <<job_stuck, check_out>>
    /\ UNCHANGED <<poolVars, connVars, queueVars, extVars>>
    /\ UNCHANGED recVars
    /\ UNCHANGED fsVars
    /\ UNCHANGED <<entry, invocations, queue, run_inst, calc_control, assets_left,
                   warnings, now, start_time, last_elapsed, job_id,
                   submit_out, max_retries, attempt, sleeps>>

\* time.sleep(10) (line 214)
WaitSleep ==
    /\ pc = "w_sleep"
    /\ now' = Tick(SleepTicks)
    /\ pc' = "w_check"
    /\ status_stdout' = "none"
    /\ UNCHANGED <<job_stuck, job_state, wait_exit, check_out>>
    /\ UNCHANGED <<poolVars, connVars, queueVars, extVars>>
    /\ UNCHANGED recVars
    /\ UNCHANGED fsVars
    /\ UNCHANGED <<entry, invocations, queue, run_inst, calc_control, assets_left,
                   warnings, ops, start_time, last_elapsed, job_id,
                   submit_out, max_retries, attempt, sleeps, exit>>

(***************************************************************************)
(* RemoteExecutionMixin._verify_and_retrieve_output_file                   *)
(***************************************************************************)
\* _verify_and_retrieve_output_file(..., max_retries=m) is called on its own,
\* on a scheduler whose remote_path is set
VerifyCall ==
    \E m \in 0..MaxRetriesArg, base \in RemoteDirs, dir \in RunDirs :
        /\ StartCall("verify")
        /\ run_inst' = RunInst
        /\ queue' = [execution |-> "remote", scheduler |-> "slurm", job_timeout |-> -1]
        /\ job_id' = ""
        /\ now' = 0
        /\ start_time' = 0
        /\ max_retries' = m
        /\ pc' = "v_check"
        /\ UNCHANGED calc_control
        /\ assets_left' = 0
        /\ remote_path' = IF remote_path[RunInst] = None
                           THEN [remote_path EXCEPT ![RunInst] = PathJoin(base, dir)]
                           ELSE remote_path
        /\ UNCHANGED <<remote_sessions, auths, numAuth, remote, inst_last_remote_path,
                       has_inst_last, cls_last_remote_path, numCalls, hist, last_setup,
                       last_close>>
        /\ UNCHANGED <<connVars, queueVars, extVars>>

\* the function returns; run() returns (stdout, stderr) (line 173)
VerifyReturns(n) ==
    /\ pc' = "done"
    /\ exit' = [NoExit EXCEPT !.kind = "returned", !.attempts = n]

\* the existence check (lines 225-235)
VerifyCheck ==
    /\ pc = "v_check"
    /\ ops' = Append(ops, "check")
    /\ \E raised \in BOOLEAN, out \in CheckStdouts :
        IF raised
        THEN out = "" /\ Raise(RemoteError) /\ check_out' = "raised"
        ELSE /\ check_out' = out
             /\ IF ContainsMissing(out)
                THEN Raise([NoExit EXCEPT !.kind = "not_found",
                                          !.path = remote_path[run_inst]])
                ELSE IF max_retries <= 0
                THEN VerifyReturns(0)       \* range(max_retries) is empty
                ELSE pc' = "v_retrieve" /\ UNCHANGED exit
    /\ UNCHANGED <<job_stuck, job_state, wait_exit, status_stdout>>
    /\ UNCHANGED <<poolVars, connVars, queueVars, extVars>>
    /\ UNCHANGED recVars
    /\ UNCHANGED fsVars
    /\ UNCHANGED <<entry, invocations, queue, run_inst, calc_control, assets_left,
                   warnings, now, start_time, last_elapsed, job_id,
                   submit_out, max_retries, attempt, sleeps>>

\* one retrieve_file call of the retry loop (lines 238-253)
VerifyRetrieve ==
    /\ pc = "v_retrieve"
    /\ \E ok \in BOOLEAN :
        /\ ops' = Append(ops, IF ok THEN "retrieve_ok" ELSE "retrieve_fail")
        /\ IF ok THEN VerifyReturns(attempt + 1)
           ELSE IF HasRetryLeft(attempt, max_retries)
           THEN pc' = "v_backoff" /\ UNCHANGED exit
           ELSE Raise([NoExit EXCEPT !.kind = "retrieval_failed",
                                     !.attempts = max_retries])
    /\ UNCHANGED waitVars
    /\ UNCHANGED <<poolVars, connVars, queueVars, extVars>>
    /\ UNCHANGED recVars
    /\ UNCHANGED fsVars
    /\ UNCHANGED <<entry, invocations, queue, run_inst, calc_control, assets_left,
                   warnings, now, start_time, last_elapsed, job_id,
                   submit_out, max_retries, attempt, sleeps>>

\* time.sleep(2 ** attempt) and the next iteration (line 248)
VerifyBackoff ==
    /\ pc = "v_backoff"
    /\ sleeps' = Append(sleeps, Pow2(attempt))
    /\ attempt' = attempt + 1
    /\ IF attempt + 1 < max_retries
       THEN pc' = "v_retrieve" /\ UNCHANGED exit
       ELSE VerifyReturns(attempt + 1)     \* range(max_retries) is exhausted
    /\ UNCHANGED waitVars
    /\ UNCHANGED <<poolVars, connVars, queueVars, extVars>>
    /\ UNCHANGED recVars
    /\ UNCHANGED fsVars
    /\ UNCHANGED <<entry, invocations, queue, run_inst, calc_control, assets_left,
                   warnings, ops, now, start_time, last_elapsed, job_id,
                   submit_out, max_retries>>

(***************************************************************************)
(* RemoteRunner (remote_runner.py): the persistent connection of one       *)
(* runner and its _connect, one blocking call a step.                      *)
(***************************************************************************)
KeyOutcomes == {"ok", "FileNotFoundError", "SSHException", "other"}
PasswordOutcomes == {"ok", "SSHException", "other"}
DefaultRetries == 3

NoConnExit == [kind |-> "none", host |-> "", attempts |-> -1]

\* RemoteRunner.hostname
RunnerHost == "hostA"

\* for attempt in range(1, retries + 1)
InRange_OneMore(a, retries) == a <= retries + 1

InRange(a, retries) == a <= retries

\* except FileNotFoundError / except paramiko.ssh_exception.SSHException:
\* the failures of key authentication that are logged and passed over
KeyFailureCaught_Any(outcome) == outcome # "ok"

KeyFailureCaught(outcome) == outcome \in {"FileNotFoundError", "SSHException"}

\* if self.password: the step that follows key authentication, or the
\* reachability test when no key is configured (lines 131-148)
AfterKey_TryPassword == "c_password"

AfterKey == IF password THEN "c_password" ELSE "c_sleep"

\* if self.is_connected and self.client (line 86)
HoldsConnection_Never == FALSE

HoldsConnection == is_connected /\ client # "none"

ConnTerminal == c_pc \in {"idle", "returned", "raised"}

\* the loop header and the logging of the attempt (lines 100-102); after the
\* loop, the ConnectionError naming host and retries (line 155)
NextAttempt(a) ==
    IF InRange(a, c_retries)
    THEN /\ c_attempt' = a
         /\ c_log' = Append(c_log, <<"attempt", "">>)
         /\ c_pc' = "c_reach"
         /\ UNCHANGED c_exit
    ELSE /\ c_attempt' = a
         /\ c_pc' = "raised"
         /\ c_exit' = [kind |-> "ConnectionError", host |-> RunnerHost,
                       attempts |-> c_retries]
         /\ UNCHANGED c_log

\* runner._connect(retries=r) is called; the liveness probe of a connection
\* that is held (lines 86-98)
ConnectCall ==
    \E r \in 0..MaxConnRetries :
        /\ ConnTerminal
        /\ c_calls < MaxConnCalls
        /\ c_calls' = c_calls + 1
        /\ c_retries' = r
        /\ c_attempt' = 0
        /\ IF HoldsConnection
           THEN IF client = "open"
                THEN \* the probe command went out: return self.client
                     /\ c_log' = << <<"probe", "ok">> >>
                     /\ c_pc' = "returned"
                     /\ c_exit' = [NoConnExit EXCEPT !.kind = "returned"]
                     /\ UNCHANGED <<client, sftp, is_connected>>
                ELSE \* the probe raised: reset and reconnect
                     /\ is_connected' = FALSE
                     /\ client' = "none"
                     /\ sftp' = "none"
                     /\ c_log' = << <<"probe", "fail">> >>
                     /\ c_pc' = "c_loop"
                     /\ c_exit' = NoConnExit
           ELSE /\ c_log' = <<>>
                /\ c_pc' = "c_loop"
                /\ c_exit' = NoConnExit
                /\ UNCHANGED <<client, sftp, is_connected>>
        /\ UNCHANGED <<key_path, password, handshakes>>
        /\ UNCHANGED <<poolVars, runVars, queueVars, extVars>>

\* the first iteration of the loop, or none when range(1, retries + 1) is empty
ConnectLoop ==
    /\ c_pc = "c_loop"
    /\ NextAttempt(1)
    /\ UNCHANGED <<client, sftp, is_connected, key_path, password, handshakes,
                   c_calls, c_retries>>
    /\ UNCHANGED <<poolVars, runVars, queueVars, extVars>>

\* socket.create_connection(...).close() (line 105)
ConnectReach ==
    /\ c_pc = "c_reach"
    /\ \E ok \in BOOLEAN :
        IF ok
        THEN /\ c_log' = Append(c_log, <<"reach", "ok">>)
             /\ c_pc' = IF key_path THEN "c_key" ELSE AfterKey
        ELSE /\ c_log' = Append(c_log, <<"reach", "fail">>)
             /\ c_pc' = "c_sleep"
    /\ UNCHANGED <<client, sftp, is_connected, key_path, password, handshakes,
                   c_calls, c_retries, c_attempt, c_exit>>
    /\ UNCHANGED <<poolVars, runVars, queueVars, extVars>>

\* key-based authentication (lines 111-129)
ConnectKey ==
    /\ c_pc = "c_key"
    /\ \E outcome \in KeyOutcomes :
        /\ c_log' = Append(c_log, <<"key", outcome>>)
        /\ IF outcome = "ok"
           THEN /\ client' = "open"
                /\ is_connected' = TRUE
                /\ handshakes' = handshakes + 1
                /\ c_pc' = "returned"
                /\ c_exit' = [NoConnExit EXCEPT !.kind = "returned"]
           ELSE /\ c_pc' = IF KeyFailureCaught(outcome) THEN AfterKey ELSE "c_sleep"
                /\ UNCHANGED <<client, is_connected, handshakes, c_exit>>
    /\ UNCHANGED <<sftp, key_path, password, c_calls, c_retries, c_attempt>>
    /\ UNCHANGED <<poolVars, runVars, queueVars, extVars>>

\* password authentication (lines 132-148); a failure ends the attempt
ConnectPassword ==
    /\ c_pc = "c_password"
    /\ \E outcome \in PasswordOutcomes :
        /\ c_log' = Append(c_log, <<"password", outcome>>)
        /\ IF outcome = "ok"
           THEN /\ client' = "open"
                /\ is_connected' = TRUE
                /\ handshakes' = handshakes + 1
                /\ c_pc' = "returned"
                /\ c_exit' = [NoConnExit EXCEPT !.kind = "returned"]
           ELSE /\ c_pc' = "c_sleep"
                /\ UNCHANGED <<client, is_connected, handshakes, c_exit>>
    /\ UNCHANGED <<sftp, key_path, password, c_calls, c_retries, c_attempt>>
    /\ UNCHANGED <<poolVars, runVars, queueVars, extVars>>

\* except Exception: time.sleep(delay), then the next iteration (lines 150-153)
ConnectSleep ==
    /\ c_pc = "c_sleep"
    /\ IF InRange(c_attempt + 1, c_retries)
       THEN /\ c_attempt' = c_attempt + 1
            /\ c_log' = c_log \o << <<"sleep", "">>, <<"attempt", "">> >>
            /\ c_pc' = "c_reach"
            /\ UNCHANGED c_exit
       ELSE /\ c_attempt' = c_attempt + 1
            /\ c_log' = Append(c_log, <<"sleep", "">>)
            /\ c_pc' = "raised"
            /\ c_exit' = [kind |-> "ConnectionError", host |-> RunnerHost,
                          attempts |-> c_retries]
    /\ UNCHANGED <<client, sftp, is_connected, key_path, password, handshakes,
                   c_calls, c_retries>>
    /\ UNCHANGED <<poolVars, runVars, queueVars, extVars>>

\* RemoteRunner.close (lines 483-511)
RunnerClose ==
    /\ ConnTerminal
    /\ c_pc # "idle"
    /\ sftp' = "none"
    /\ client' = "none"
    /\ is_connected' = FALSE
    /\ c_pc' = "idle"
    /\ UNCHANGED <<key_path, password, handshakes, c_calls, c_retries, c_attempt,
                   c_log, c_exit>>
    /\ UNCHANGED <<poolVars, runVars, queueVars, extVars>>

\* RemoteRunner._get_sftp (lines 157-170) after the _connect it called
\* returned: self.sftp = self.client.open_sftp(); a cached channel is
\* returned as it is
GetSftp ==
    /\ c_pc = "returned"
    /\ sftp = "none"
    /\ client = "open"
    /\ sftp' = "open"
    /\ UNCHANGED <<client, is_connected, key_path, password, handshakes, c_calls,
                   c_retries, c_attempt, c_log, c_exit, c_pc>>
    /\ UNCHANGED <<poolVars, runVars, queueVars, extVars>>

\* RemoteRunner.test_connection (lines 344-351) after the _connect it called
\* returned: client.close() on the client that _connect returned, which is
\* self.client; no field of the runner is reset
TestConnection ==
    /\ c_pc = "returned"
    /\ client \in {"open", "dead"}
    /\ client' = "closed"
    /\ c_pc' = "idle"
    /\ UNCHANGED <<sftp, is_connected, key_path, password, handshakes, c_calls,
                   c_retries, c_attempt, c_log, c_exit>>
    /\ UNCHANGED <<poolVars, runVars, queueVars, extVars>>

\* the transport of the held connection dies
TransportDies ==
    /\ ConnTerminal
    /\ client = "open"
    /\ client' = "dead"
    /\ UNCHANGED <<sftp, is_connected, key_path, password, handshakes, c_calls,
                   c_retries, c_attempt, c_log, c_exit, c_pc>>
    /\ UNCHANGED <<poolVars, runVars, queueVars, extVars>>

\* RemoteJobManager(host, user, key_path, password) built with the credentials
\* of the runner (remote_job_manager.py, lines 9-20)
ManagerInit ==
    /\ mgr = "none"
    /\ mgr' = IF ~key_path /\ ~password THEN "ValueError" ELSE "constructed"
    /\ UNCHANGED <<tool_in, tool_out>>
    /\ UNCHANGED <<poolVars, runVars, connVars, queueVars, raceVars, authVars, moreVars>>

InitConn ==
    /\ c_pc = "idle"
    /\ client = "none"
    /\ sftp = "none"
    /\ is_connected = FALSE
    /\ key_path \in BOOLEAN
    /\ password \in BOOLEAN
    /\ handshakes = 0
    /\ c_calls = 0
    /\ c_retries = DefaultRetries
    /\ c_attempt = 0
    /\ c_log = <<>>
    /\ c_exit = NoConnExit

(***************************************************************************)
(* set_queue (scheduler.py) and check_slurm_available (utils/slurm.py),    *)
(* one call or assignment a step.                                          *)
(***************************************************************************)
QueueSchedulers == {"slurm", "direct", "absent"}
QueueExecutions == {"local", "remote", "absent"}

\* subprocess.run(["scontrol", "ping"], check=True): it returns, raises
\* CalledProcessError on a non-zero status, or raises the OSError of a
\* command that cannot be started
PingOutcomes == {"ok", "CalledProcessError", "FileNotFoundError", "PermissionError"}

\* if not queue or "scheduler" not in queue (lines 52-57)
DefaultQueue(q) ==
    IF q.scheduler = "absent" THEN [scheduler |-> "direct", execution |-> "local"] ELSE q

\* queue.get("scheduler") == "slurm" and queue.get("execution", "local") == "local"
NeedsSlurmCheck(q) ==
    /\ q.scheduler = "slurm"
    /\ (IF q.execution = "absent" THEN "local" ELSE q.execution) = "local"

\* except subprocess.CalledProcessError (slurm.py line 49): the failure of the
\* ping that is turned into RuntimeError
PingFailureCaught(outcome) == outcome = "CalledProcessError"

\* scheduler.submit_command()
SubmitCommandOf(kind) == IF kind = "slurm" THEN "sbatch" ELSE "bash"

NoQueueExit == [kind |-> "none", cause |-> ""]

SqTerminal == sq_pc \in {"idle", "done", "raised"}

QueueRaise(kind, cause) ==
    /\ sq_pc' = "raised"
    /\ sq_exit' = [kind |-> kind, cause |-> cause]

\* except RuntimeError as e: raise RuntimeError("SLURM scheduler is not
\* available locally: ...") (lines 64-66)
SlurmUnavailable(cause) == QueueRaise("RuntimeError: SLURM scheduler is not available", cause)

\* set_queue is called (lines 32-61)
SetQueueCall ==
    \E sch \in QueueSchedulers, ex \in QueueExecutions :
        LET q == DefaultQueue([scheduler |-> sch, execution |-> ex]) IN
        /\ SqTerminal
        /\ sq_calls < MaxQueueCalls
        /\ sq_calls' = sq_calls + 1
        /\ sq_queue' = q
        /\ sq_check' = "not_called"
        /\ sq_ops' = <<>>
        /\ sq_written' = FALSE
        /\ sq_before' = [scheduler |-> calc_scheduler, command |-> calc_command]
        /\ sq_exit' = NoQueueExit
        /\ sq_pc' = IF NeedsSlurmCheck(q) THEN "q_force" ELSE "q_init"
        /\ UNCHANGED <<calc_scheduler, calc_command>>
        /\ UNCHANGED <<poolVars, runVars, connVars, extVars>>

\* check_slurm_available: XESPRESSO_FORCE_SCHEDULER (slurm.py lines 32-33)
CheckForce ==
    /\ sq_pc = "q_force"
    /\ \E force \in BOOLEAN :
        IF force
        THEN sq_check' = "forced" /\ sq_pc' = "q_init"
        ELSE sq_check' = "started" /\ sq_pc' = "q_which"
    /\ UNCHANGED <<sq_calls, sq_queue, sq_ops, sq_written, sq_before, sq_exit,
                   calc_scheduler, calc_command>>
    /\ UNCHANGED <<poolVars, runVars, connVars, extVars>>

\* check_slurm_available: shutil.which("sbatch") (slurm.py lines 35-40)
CheckWhich ==
    /\ sq_pc = "q_which"
    /\ sq_ops' = Append(sq_ops, "which")
    /\ \E found \in BOOLEAN :
        IF found
        THEN sq_pc' = "q_ping" /\ UNCHANGED <<sq_check, sq_exit>>
        ELSE sq_check' = "no_sbatch" /\ SlurmUnavailable("no_sbatch")
    /\ UNCHANGED <<sq_calls, sq_queue, sq_written, sq_before,
                   calc_scheduler, calc_command>>
    /\ UNCHANGED <<poolVars, runVars, connVars, extVars>>

\* check_slurm_available: scontrol ping (slurm.py lines 42-54)
CheckPing ==
    /\ sq_pc = "q_ping"
    /\ sq_ops' = Append(sq_ops, "ping")
    /\ \E outcome \in PingOutcomes :
        IF outcome = "ok"
        THEN sq_check' = "ok" /\ sq_pc' = "q_init" /\ UNCHANGED sq_exit
        ELSE /\ sq_check' = outcome
             /\ IF PingFailureCaught(outcome)
                THEN SlurmUnavailable(outcome)
                ELSE \* not a RuntimeError: it passes through set_queue as it is
                     QueueRaise(outcome, outcome)
    /\ UNCHANGED <<sq_calls, sq_queue, sq_written, sq_before,
                   calc_scheduler, calc_command>>
    /\ UNCHANGED <<poolVars, runVars, connVars, extVars>>

\* scheduler = get_scheduler(calc, queue, command) (lines 69-73)
QueueInit ==
    /\ sq_pc = "q_init"
    /\ sq_ops' = Append(sq_ops, "get_scheduler")
    /\ \E raised \in BOOLEAN :
        IF raised
        THEN QueueRaise("ValueError: Failed to initialize scheduler", "")
        ELSE sq_pc' = "q_write" /\ UNCHANGED sq_exit
    /\ UNCHANGED <<sq_calls, sq_queue, sq_check, sq_written, sq_before,
                   calc_scheduler, calc_command>>
    /\ UNCHANGED <<poolVars, runVars, connVars, extVars>>

\* scheduler.write_script() (line 76)
QueueWrite ==
    /\ sq_pc = "q_write"
    /\ sq_ops' = Append(sq_ops, "write_script")
    /\ \E raised \in BOOLEAN :
        IF raised
        THEN QueueRaise("OSError", "") /\ UNCHANGED sq_written
        ELSE sq_written' = TRUE /\ sq_pc' = "q_store" /\ UNCHANGED sq_exit
    /\ UNCHANGED <<sq_calls, sq_queue, sq_check, sq_before,
                   calc_scheduler, calc_command>>
    /\ UNCHANGED <<poolVars, runVars, connVars, extVars>>

\* calc.scheduler = scheduler; calc.command = scheduler.submit_command()
\* (lines 79-84)
QueueStore ==
    /\ sq_pc = "q_store"
    /\ calc_scheduler' = sq_queue.scheduler
    /\ calc_command' = SubmitCommandOf(sq_queue.scheduler)
    /\ sq_pc' = "done"
    /\ sq_exit' = [kind |-> "returned", cause |-> ""]
    /\ UNCHANGED <<sq_calls, sq_queue, sq_check, sq_ops, sq_written, sq_before>>
    /\ UNCHANGED <<poolVars, runVars, connVars, extVars>>

InitQueue ==
    /\ sq_pc = "idle"
    /\ sq_calls = 0
    /\ sq_queue = [scheduler |-> "absent", execution |-> "absent"]
    /\ sq_check = "not_called"
    /\ sq_ops = <<>>
    /\ sq_written = FALSE
    /\ sq_before = [scheduler |-> "none", command |-> ""]
    /\ sq_exit = NoQueueExit
    /\ calc_scheduler = "none"
    /\ calc_command = ""

(***************************************************************************)
(* Stand-alone operations, one call a step. A string is the sequence of    *)
(* its lines: "" is <<"">>, and "\n".join(list) puts the lines of the      *)
(* strings of the list one after the other.                                *)
(***************************************************************************)
ModuleNames == {"qe", "mpi"}
\* queue["modules"]: a list of module names, or a value that is no list
ModuleLists ==
    [is_list : {TRUE}, items : UNION {[1..n -> ModuleNames] : n \in 0..MaxModules}]
        \cup {[is_list |-> FALSE, items |-> <<>>]}
Prepends == {None, <<"">>, <<"prepend 1">>, <<"prepend 1", "", "prepend 2">>}
\* queue["xespressorc"]: whether a name is given, whether $HOME has the file,
\* and the text of the file
Profiles ==
    {[named |-> FALSE, exists |-> FALSE, text |-> <<"">>],
     [named |-> TRUE, exists |-> FALSE, text |-> <<"">>]}
        \cup [named : {TRUE}, exists : {TRUE},
              text : {<<"">>, <<"rc 1">>, <<"rc 1", "">>}]
Postpends == {None, <<"">>, <<"postpend 1">>}
ScriptQueues ==
    [prepend : Prepends, use_modules : BOOLEAN, modules : ModuleLists,
     xespressorc : Profiles, postpend : Postpends]
WriteInputs == [op : {"write_script"}, queue : ScriptQueues, command : {<<"command">>}]

ModuleLoad(m) == IF m = "qe" THEN "module load qe" ELSE "module load mpi"

RECURSIVE Flatten(_)
Flatten(strs) == IF strs = <<>> THEN <<>> ELSE Head(strs) \o Flatten(Tail(strs))

\* "\n".join(lines)
Join(strs) == IF strs = <<>> THEN <<"">> ELSE Flatten(strs)

\* the truth value of a string
NonEmpty(str) == str # <<"">>

\* the parts of the environment block, each a list of strings
PrependPart(q) == IF q.prepend # None THEN <<q.prepend>> ELSE <<>>
ModulePart(q) ==
    IF q.use_modules /\ q.modules.is_list /\ q.modules.items # <<>>
    THEN << <<"module purge">> >>
             \o [i \in 1..Len(q.modules.items) |-> <<ModuleLoad(q.modules.items[i])>>]
    ELSE <<>>
ProfilePart(q) ==
    IF q.xespressorc.named /\ q.xespressorc.exists
    THEN <<q.xespressorc.text>>
    ELSE <<>>

\* Scheduler._load_config_script (schedulers/base.py, lines 46-79)
LoadConfigScript_ModulesFirst(q) ==
    Join(ModulePart(q) \o << <<"">> >> \o PrependPart(q) \o << <<"">> >>
             \o ProfilePart(q))

LoadConfigScript(q) ==
    Join(PrependPart(q) \o << <<"">> >> \o ModulePart(q) \o << <<"">> >>
             \o ProfilePart(q))

\* Scheduler._load_post_script (lines 81-88)
LoadPostScript(q) == IF q.postpend # None THEN q.postpend ELSE <<"">>

\* DirectScheduler.write_script (schedulers/direct.py, lines 25-43): the text
\* written to the job file
ScriptText(config_script, command, post_script) ==
    Join(<< <<"#!/bin/bash">>, <<"">> >>
         \o (IF NonEmpty(config_script) THEN <<config_script, <<"">> >> ELSE <<>>)
         \o <<command, <<"">> >>
         \o (IF NonEmpty(post_script) THEN <<post_script>> ELSE <<>>))

\* DirectScheduler(calc, queue, command).write_script()
WriteScript ==
    /\ tool_in.op = "write_script"
    /\ tool_out = None
    /\ tool_out' = [script |-> ScriptText(LoadConfigScript(tool_in.queue),
                                          tool_in.command,
                                          LoadPostScript(tool_in.queue))]
    /\ UNCHANGED <<mgr, tool_in>>
    /\ UNCHANGED <<poolVars, runVars, connVars, queueVars, raceVars, authVars, moreVars>>

\* Texts read from a channel are sequences of words and whitespace.
Whitespace == {" ", "\n"}
JobStdouts == {<<>>, <<"Submitted", " ", "batch", " ", "job", " ", "4711", "\n">>,
               <<" ", "ok", " ">>}
JobStderrs == {<<>>, <<"\n">>,
               <<"Loading", " ", "qe">>, <<"\n", "Loading", " ", "qe", "\n">>,
               <<"sbatch:", " ", "error", "\n">>, <<"loading", " ", "failed">>,
               <<"sbatch:", " ", "Loading">>}
\* calc: None, an object without a command attribute, or one with it
SubmitCalcs == {"none", "no_command", "with_command"}
SubmitInputs ==
    [op : {"submit_remote_job"}, calc : SubmitCalcs,
     connect : {"returned", "ConnectionError"},
     stdout : JobStdouts, stderr : JobStderrs]

\* str.strip()
StripText(t) ==
    LET idx == {i \in 1..Len(t) : t[i] \notin Whitespace}
    IN IF idx = {} THEN <<>>
       ELSE SubSeq(t, CHOOSE i \in idx : \A j \in idx : i <= j,
                      CHOOSE i \in idx : \A j \in idx : i >= j)

\* error.strip().startswith("Loading") for a non-empty error (line 289)
BenignStderr_Never(error) == FALSE

BenignStderr(error) == Head(StripText(error)) = "Loading"

\* lines 278-281
JobCommand(calc) == IF calc = "with_command" THEN "calc.command" ELSE "sbatch .job_file"

\* RemoteRunner.submit_remote_job (remote_runner.py, lines 274-296); its
\* _connect either returns the client or raises ConnectionError
SubmitRemoteJob ==
    /\ tool_in.op = "submit_remote_job"
    /\ tool_out = None
    /\ tool_out' =
          IF tool_in.connect = "ConnectionError"
          THEN [commands |-> <<>>, exit |-> "ConnectionError", value |-> <<>>]
          ELSE LET output == StripText(tool_in.stdout)
                   error == StripText(tool_in.stderr)
               IN IF error # <<>> /\ ~BenignStderr(error)
                  THEN [commands |-> <<JobCommand(tool_in.calc)>>,
                        exit |-> "RuntimeError", value |-> <<>>]
                  ELSE [commands |-> <<JobCommand(tool_in.calc)>>,
                        exit |-> "returned", value |-> StripText(output)]
    /\ UNCHANGED <<mgr, tool_in>>
    /\ UNCHANGED <<poolVars, runVars, connVars, queueVars, raceVars, authVars, moreVars>>

\* The local directory of transfer_inputs: its regular files, its
\* subdirectories other than pseudos (each holding a file of its own), and
\* pseudos with its regular files and a subdirectory.
TopFiles == {"espresso.pwi", ".job_file"}
TopDirs == {"tmp"}
PseudoFiles == {"Si.upf"}
TransferInputSet ==
    [op : {"transfer_inputs"}, connect : {"returned", "ConnectionError"},
     files : SUBSET TopFiles, dirs : SUBSET TopDirs,
     pseudos : [present : BOOLEAN, files : SUBSET PseudoFiles, nested : BOOLEAN]]

\* os.listdir(local_dir)
Listing(in) ==
    in.files \cup in.dirs \cup (IF in.pseudos.present THEN {"pseudos"} ELSE {})

\* the os module has path.join and no attribute pathjoin (line 223)
OsHasPathjoin == FALSE

\* RemoteRunner.transfer_inputs (remote_runner.py, lines 216-247): puts are
\* pairs of the remote folder ("." is remote_dir) and the file name
TransferInputs ==
    /\ tool_in.op = "transfer_inputs"
    /\ tool_out = None
    /\ tool_out' =
          IF tool_in.connect = "ConnectionError"
          THEN [commands |-> <<>>, puts |-> {}, exit |-> "ConnectionError"]
          ELSE IF Listing(tool_in) # {} /\ ~OsHasPathjoin
          THEN [commands |-> <<"mkdir -p">>, puts |-> {}, exit |-> "AttributeError"]
          ELSE [commands |-> <<"mkdir -p">>,
                puts |-> {<<".", f>> : f \in tool_in.files}
                            \cup (IF tool_in.pseudos.present
                                  THEN {<<"pseudos", f>> : f \in tool_in.pseudos.files}
                                  ELSE {}),
                exit |-> "returned"]
    /\ UNCHANGED <<mgr, tool_in>>
    /\ UNCHANGED <<poolVars, runVars, connVars, queueVars, raceVars, authVars, moreVars>>

\* remote_job_manager.RemoteJobManager.submit for a local directory holding
\* a .pwi file and no .remote_info.json.  kind is what _read_queue_config
\* returned; mkdir_error and ls are the outcomes of "mkdir -p" and "ls";
\* available is the output of "command -v sbatch|qsub" (the result of
\* _is_safe_for_direct_execution for direct); stdout and stderr are what the
\* submission command wrote (what "ps aux | grep" wrote for direct).
ManagerKinds == {"slurm", "pbs", "direct", "unknown"}
ManagerStdouts == {<<>>, <<"Submitted", " ", "batch", " ", "job", " ", "4711", "\n">>,
                   <<"4711", "\n">>, <<"4711.pbs01", "\n">>}
ManagerStderrs == {<<>>, <<"sbatch:", " ", "error", "\n">>}
ManagerInputs ==
    [op : {"manager_submit"}, kind : ManagerKinds,
     connect : {"returned", "raised"}, mkdir_error : BOOLEAN,
     ls : {"error", "without_job", "with_job"}, available : BOOLEAN,
     stdout : ManagerStdouts, stderr : ManagerStderrs]

\* output.isdigit() (line 248)
IsDigit(output) == Len(output) = 1 /\ output[1] \in DigitWords

\* output.split('.')[0] (line 273)
BeforeDot(output) ==
    IF output = <<"4711.pbs01">> THEN <<"4711">> ELSE output

\* no .remote_info.json was written
NoInfo == [written |-> FALSE, scheduler |-> "", job_id |-> <<>>]

\* _submit_slurm (lines 231-254), _submit_pbs (lines 256-278) and
\* _submit_direct (lines 280-299): the commands sent, success and the job id
\* (<<>> for None)
SubmitByKind(in) ==
    LET output == StripText(in.stdout)
        error == StripText(in.stderr)
    IN IF in.kind \in {"slurm", "pbs"}
       THEN LET probe == IF in.kind = "slurm" THEN "command -v sbatch"
                         ELSE "command -v qsub"
                send == IF in.kind = "slurm" THEN "sbatch" ELSE "qsub"
            IN IF ~in.available
               THEN [commands |-> <<probe>>, success |-> FALSE, job_id |-> <<>>]
               ELSE IF error # <<>>
               THEN [commands |-> <<probe, send>>, success |-> FALSE, job_id |-> <<>>]
               ELSE IF in.kind = "slurm"
               THEN IF output # <<>> /\ IsDigit(output)
                    THEN [commands |-> <<probe, send>>, success |-> TRUE,
                          job_id |-> output]
                    ELSE [commands |-> <<probe, send>>, success |-> FALSE,
                          job_id |-> <<>>]
               ELSE IF output # <<>>
                    THEN [commands |-> <<probe, send>>, success |-> TRUE,
                          job_id |-> BeforeDot(output)]
                    ELSE [commands |-> <<probe, send>>, success |-> FALSE,
                          job_id |-> <<>>]
       ELSE IF in.kind = "direct"
       THEN IF ~in.available
            THEN [commands |-> <<>>, success |-> FALSE, job_id |-> <<>>]
            ELSE [commands |-> <<"nohup bash", "ps aux">>,
                  success |-> output # <<>>, job_id |-> <<>>]
       ELSE [commands |-> <<>>, success |-> FALSE, job_id |-> <<>>]

\* RemoteJobManager.submit (remote_job_manager.py, lines 113-229): every
\* exception is caught and answered with False
ManagerSubmit ==
    /\ tool_in.op = "manager_submit"
    /\ tool_out = None
    /\ tool_out' =
          IF tool_in.connect = "raised"
          THEN [commands |-> <<>>, exit |-> "returned", result |-> FALSE,
                info |-> NoInfo]
          ELSE IF tool_in.mkdir_error
          THEN [commands |-> <<"mkdir -p">>, exit |-> "returned", result |-> FALSE,
                info |-> NoInfo]
          ELSE IF tool_in.ls # "with_job"
          THEN [commands |-> <<"mkdir -p", "ls">>, exit |-> "returned",
                result |-> FALSE, info |-> NoInfo]
          ELSE LET sub == SubmitByKind(tool_in) IN
               [commands |-> <<"mkdir -p", "ls">> \o sub.commands,
                exit |-> "returned",
                result |-> sub.success,
                info |-> IF sub.success
                         THEN [written |-> TRUE, scheduler |-> tool_in.kind,
                               job_id |-> sub.job_id]
                         ELSE NoInfo]
    /\ UNCHANGED <<mgr, tool_in>>
    /\ UNCHANGED <<poolVars, runVars, connVars, queueVars, raceVars, authVars, moreVars>>

ToolInputs == WriteInputs \cup SubmitInputs \cup TransferInputSet \cup ManagerInputs

InitTools ==
    /\ mgr = "none"
    /\ tool_in \in ToolInputs
    /\ tool_out = None

ToolsIdle ==
    /\ mgr = "none"
    /\ tool_in = [op |-> "none"]
    /\ tool_out = None

(***************************************************************************)
(* _transfer_pseudopotentials with its search directories, and the upload  *)
(* of the input file that follows it, in successive run()s of one          *)
(* calculator (remote_mixin.py, lines 69-111 and 143-145).                 *)
(***************************************************************************)
UserDir == "/data/pseudo"
EnvDir == "/opt/pseudo"
HomeDir == "~/espresso/pseudo/"
InJobDir == "./pseudo"
AssetFiles == {"Fe.upf", "O.upf"}
AssetDirs == {UserDir, EnvDir, HomeDir}
AssetControls == {"absent", "no_pseudo_dir", UserDir}
\* the local directories: the first file in any of them, the second in the
\* user's default directory at most
AssetTrees ==
    {fe \cup o : fe \in SUBSET (AssetDirs \X {"Fe.upf"}),
                 o \in {{}, {<<HomeDir, "O.upf">>}}}
\* self.remote_path of the scheduler
AssetRemotePath == <<"/home/user", "calc1">>
\* max_retries of _transfer_pseudopotentials (line 69)
TransferRetries == 1

\* the sequences over S of length n at most
SeqsUpTo(S, n) == UNION {[1..m -> S] : m \in 0..n}

\* "pseudo_dir" in control (line 76)
HasPseudoDir(control) == control \notin {"absent", "no_pseudo_dir"}

\* search_dirs (lines 74-80)
SearchDirs_EnvFirst(control, environ) ==
    (IF environ # "" THEN <<environ>> ELSE <<>>)
        \o (IF HasPseudoDir(control) THEN <<control>> ELSE <<>>)
        \o <<HomeDir>>

SearchDirs(control, environ) ==
    (IF HasPseudoDir(control) THEN <<control>> ELSE <<>>)
        \o (IF environ # "" THEN <<environ>> ELSE <<>>)
        \o <<HomeDir>>

RECURSIVE FirstHolding(_, _)
\* for pseudo_dir in search_dirs: if os.path.exists(local_path) (lines 85-87);
\* "" when no directory holds the file
FirstHolding(dirs, file) ==
    IF dirs = <<>> THEN ""
    ELSE IF <<Head(dirs), file>> \in a_fs THEN Head(dirs)
    ELSE FirstHolding(Tail(dirs), file)

RECURSIVE Lookup(_, _, _)
\* for attempt in range(max_retries + 1) (lines 84-104): the directory the
\* file is sent from, "" when it is found in no attempt
Lookup(dirs, file, attempts) ==
    IF attempts <= 0 THEN ""
    ELSE IF FirstHolding(dirs, file) # "" THEN FirstHolding(dirs, file)
    ELSE Lookup(dirs, file, attempts - 1)

AssetEvent(op, n, file, src, dst) ==
    [op |-> op, entry |-> n, file |-> file, src |-> src, dst |-> dst]

\* os.path.join(remote_pseudo_dir, pseudo_file) (lines 71 and 88)
RemoteAssetPath(file) == AssetRemotePath \o <<"pseudo", file>>

\* lines 83-108 for entry n of pseudopotentials: the upload and the warnings
EntryEvents(dirs, n, mismatch) ==
    LET file == a_pseudos[n]
        src == Lookup(dirs, file, TransferRetries + 1)
    IN IF src = ""
       THEN <<AssetEvent("warn_missing", n, file, "", <<>>)>>
       ELSE <<AssetEvent("send", n, file, src, RemoteAssetPath(file))>>
                \o (IF n \in mismatch
                    THEN <<AssetEvent("warn_mismatch", n, file, "", <<>>)>>
                    ELSE <<>>)

RECURSIVE LoopEvents(_, _, _, _)
\* the loop of line 82 from entry n to entry last
LoopEvents(dirs, n, last, mismatch) ==
    IF n > last THEN <<>>
    ELSE EntryEvents(dirs, n, mismatch) \o LoopEvents(dirs, n + 1, last, mismatch)

\* line 110: what CONTROL's pseudo_dir is set to
RewrittenControl_Kept(control) == control

RewrittenControl(control) == InJobDir

\* run() is called on the calculator: remote execution, _setup_remote done
AssetsRun ==
    /\ a_pc \in {"idle", "raised"}
    /\ a_runs < MaxAssetRuns
    /\ a_runs' = a_runs + 1
    /\ a_log' = <<>>
    /\ a_pc' = "transfer"
    /\ UNCHANGED <<a_control, a_environ, a_pseudos, a_fs, a_local_input,
                   a_remote_input, a_search>>
    /\ UNCHANGED <<poolVars, runVars, connVars, queueVars, toolVars, raceVars,
                   authVars, jobVars>>

\* _transfer_pseudopotentials (lines 69-111). mkdir_raised: the mkdir command
\* raised; fail: the entry whose send_file raises (0 = none does); differ:
\* the entry whose checksums differ (0 = none)
AssetsTransfer ==
    /\ a_pc = "transfer"
    /\ \E mkdir_raised \in BOOLEAN, fail \in 0..Len(a_pseudos),
          differ \in 0..Len(a_pseudos) :
        LET dirs == SearchDirs(a_control, a_environ)
            found(n) == Lookup(dirs, a_pseudos[n], TransferRetries + 1) # ""
            mismatch == {differ} \ {0}
            mkdir == <<AssetEvent("mkdir", 0, "", "", AssetRemotePath \o <<"pseudo">>)>>
        IN IF mkdir_raised
           THEN /\ fail = 0 /\ mismatch = {}
                /\ a_log' = mkdir
                /\ a_pc' = "raised"
                /\ UNCHANGED <<a_control, a_local_input, a_search>>
           ELSE /\ a_search' = Append(a_search, [control |-> a_control, dirs |-> dirs])
                /\ \A n \in mismatch : found(n) /\ (fail = 0 \/ n < fail)
                /\ IF fail > 0
                   THEN \* send_file raises RuntimeError for entry fail
                        /\ found(fail)
                        /\ a_log' = mkdir \o LoopEvents(dirs, 1, fail - 1, mismatch)
                                          \o <<AssetEvent("send_raised", fail,
                                                          a_pseudos[fail], "", <<>>)>>
                        /\ a_pc' = "raised"
                        /\ UNCHANGED <<a_control, a_local_input>>
                   ELSE IF a_control = "absent"
                   THEN \* KeyError at line 110: input_data has no CONTROL
                        /\ a_log' = mkdir \o LoopEvents(dirs, 1, Len(a_pseudos), mismatch)
                                          \o <<AssetEvent("key_error", 0, "", "", <<>>)>>
                        /\ a_pc' = "raised"
                        /\ UNCHANGED <<a_control, a_local_input>>
                   ELSE \* lines 110-111: pseudo_dir is set and the input written
                        /\ a_control' = RewrittenControl(a_control)
                        /\ a_local_input' = RewrittenControl(a_control)
                        /\ a_log' = mkdir \o LoopEvents(dirs, 1, Len(a_pseudos), mismatch)
                                          \o <<AssetEvent("write_input", 0, "", "", <<>>)>>
                        /\ a_pc' = "send_input"
    /\ UNCHANGED <<a_runs, a_environ, a_pseudos, a_fs, a_remote_input>>
    /\ UNCHANGED <<poolVars, runVars, connVars, queueVars, toolVars, raceVars,
                   authVars, jobVars>>

\* self.remote.send_file(local_input, ...) (line 145); the rest of run() is
\* not followed here
AssetsSendInput ==
    /\ a_pc = "send_input"
    /\ \E raised \in BOOLEAN :
        IF raised
        THEN /\ a_pc' = "raised"
             /\ a_log' = Append(a_log, AssetEvent("send_raised", 0, "", "", <<>>))
             /\ UNCHANGED a_remote_input
        ELSE /\ a_pc' = "idle"
             /\ a_log' = Append(a_log, AssetEvent("send_input", 0, "", "",
                                                  AssetRemotePath))
             /\ a_remote_input' = a_local_input
    /\ UNCHANGED <<a_runs, a_control, a_environ, a_pseudos, a_fs, a_local_input,
                   a_search>>
    /\ UNCHANGED <<poolVars, runVars, connVars, queueVars, toolVars, raceVars,
                   authVars, jobVars>>

\* a calculator whose input file was written with its parameters
InitAssets ==
    /\ a_pc = "idle"
    /\ a_runs = 0
    /\ a_control \in AssetControls
    /\ a_environ \in {"", EnvDir}
    /\ a_pseudos \in SeqsUpTo(AssetFiles, MaxEntries)
    /\ a_fs \in AssetTrees
    /\ a_local_input = a_control
    /\ a_remote_input = "none"
    /\ a_log = <<>>
    /\ a_search = <<>>

AssetsIdle ==
    /\ InitAssets
    /\ a_control = "no_pseudo_dir"
    /\ a_environ = ""
    /\ a_pseudos = <<>>
    /\ a_fs = {}

(***************************************************************************)
(* job_manager.RemoteJobManager: submit_job and wait_for_job               *)
(* (job_manager.py, lines 116-174 and 257-294), one poll a step.           *)
(***************************************************************************)
JobIds == {"4711", "42"}
JobStatuses == {"RUNNING", "COMPLETED", "FAILED", "CANCELLED", "unknown"}
\* timeout=None
NoTimeout == -1
JobTimeouts == {NoTimeout} \cup (0..MaxJobTimeout)
\* poll_interval = 30 seconds: one tick
PollInterval == 1
MaxJobClock == MaxJobTimeout + PollInterval + 1

NoWait == [job_id |-> "", timeout |-> NoTimeout, was_active |-> 0]
NoneSeen == [polls |-> 0, last |-> ""]
NoJobExit == [kind |-> "none", job_id |-> "", status |-> "", timeout |-> NoTimeout]

JobTerminal == j_pc \in {"idle", "returned", "raised"}

\* status.get('status') in ['COMPLETED', 'FAILED', 'CANCELLED'] (line 275)
IsFinalStatus(status) == status \in {"COMPLETED", "FAILED", "CANCELLED"}

\* if timeout and (time.time() - start_time) > timeout (line 290)
JobTimedOut_ZeroCounts(timeout, elapsed) == timeout # NoTimeout /\ elapsed > timeout

JobTimedOut(timeout, elapsed) ==
    timeout # NoTimeout /\ timeout # 0 /\ elapsed > timeout

\* the first job of job_history with that job id (lines 277-278), 0 for none
FirstEntry(id) ==
    LET hits == {n \in 1..Len(j_history) : j_history[n].job_id = id}
    IN IF hits = {} THEN 0 ELSE CHOOSE n \in hits : \A m \in hits : n <= m

\* lines 277-282: the final status goes into that job
RecordFinal(id, status) ==
    IF FirstEntry(id) = 0 THEN j_history
    ELSE [j_history EXCEPT ![FirstEntry(id)] = [job_id |-> id, status |-> status,
                                                completed |-> TRUE]]

\* submit_job (lines 116-174): the scheduler's run() returned a result with
\* job id id ("" = None); wait is wait_for_completion
JobSubmit ==
    \E id \in JobIds \cup {""}, wait \in BOOLEAN, t \in JobTimeouts :
        /\ JobTerminal
        /\ Len(j_history) < MaxJobs
        /\ j_history' = Append(j_history, [job_id |-> id, status |-> "submitted",
                                           completed |-> FALSE])
        /\ j_active' = IF id # "" THEN [j_active EXCEPT ![id] = Len(j_history) + 1]
                       ELSE j_active
        /\ IF wait /\ id # ""
           THEN /\ j_pc' = "polling"
                /\ j_wait' = [job_id |-> id, timeout |-> t,
                              was_active |-> Len(j_history) + 1]
                /\ j_start' = j_now
                /\ j_seen' = NoneSeen
                /\ j_exit' = NoJobExit
           ELSE /\ t = NoTimeout
                /\ j_pc' = "idle"
                /\ UNCHANGED <<j_wait, j_start, j_seen, j_exit>>
        /\ UNCHANGED j_now
        /\ UNCHANGED <<poolVars, runVars, connVars, queueVars, toolVars, raceVars,
                       authVars, assetVars>>

\* wait_for_job(job_id, timeout) is called for a job of job_history
\* (lines 268-269)
JobWaitCall ==
    \E id \in JobIds, t \in JobTimeouts :
        /\ JobTerminal
        /\ FirstEntry(id) # 0
        /\ j_now < MaxJobClock
        /\ j_pc' = "polling"
        /\ j_wait' = [job_id |-> id, timeout |-> t, was_active |-> j_active[id]]
        /\ j_start' = j_now
        /\ j_seen' = NoneSeen
        /\ j_exit' = NoJobExit
        /\ UNCHANGED <<j_history, j_active, j_now>>
        /\ UNCHANGED <<poolVars, runVars, connVars, queueVars, toolVars, raceVars,
                       authVars, assetVars>>

\* one iteration of the loop (lines 271-294); status is what get_job_status
\* returned: the scheduler's check_job_status, or 'unknown' without it
JobPoll ==
    /\ j_pc = "polling"
    /\ \E status \in JobStatuses :
        /\ j_seen' = [polls |-> j_seen.polls + 1, last |-> status]
        /\ IF IsFinalStatus(status)
           THEN /\ j_history' = RecordFinal(j_wait.job_id, status)
                /\ j_active' = [j_active EXCEPT ![j_wait.job_id] = 0]
                /\ j_pc' = "returned"
                /\ j_exit' = [kind |-> "returned", job_id |-> j_wait.job_id,
                              status |-> status, timeout |-> j_wait.timeout]
                /\ UNCHANGED j_now
           ELSE IF JobTimedOut(j_wait.timeout, j_now - j_start)
           THEN /\ j_pc' = "raised"
                /\ j_exit' = [kind |-> "TimeoutError", job_id |-> j_wait.job_id,
                              status |-> "", timeout |-> j_wait.timeout]
                /\ UNCHANGED <<j_history, j_active, j_now>>
           ELSE \* time.sleep(poll_interval)
                /\ j_now + PollInterval <= MaxJobClock
                /\ j_now' = j_now + PollInterval
                /\ UNCHANGED <<j_pc, j_history, j_active, j_exit>>
    /\ UNCHANGED <<j_wait, j_start>>
    /\ UNCHANGED <<poolVars, runVars, connVars, queueVars, toolVars, raceVars,
                   authVars, assetVars>>

InitJobs ==
    /\ j_pc = "idle"
    /\ j_history = <<>>
    /\ j_active = [id \in JobIds |-> 0]
    /\ j_wait = NoWait
    /\ j_now = 0
    /\ j_start = 0
    /\ j_seen = NoneSeen
    /\ j_exit = NoJobExit

JobsIdle == InitJobs

InitExt == ToolsIdle /\ InitRace /\ InitAuth /\ AssetsIdle /\ JobsIdle

(***************************************************************************)
(* Specifications.                                                         *)
(***************************************************************************)
InitRunVars ==
    /\ pc = "idle"
    /\ remote_dir \in RemoteDirStates
    /\ mkdir_res = NoMkdir
    /\ entry = "none"
    /\ invocations = 0
    /\ queue = [execution |-> Unread, scheduler |-> Unread, job_timeout |-> -1]
    /\ run_inst = 1
    /\ calc_control \in Controls
    /\ assets_left = 0
    /\ warnings = <<>>
    /\ assets = <<>>
    /\ logged = <<>>
    /\ ops = <<>>
    /\ now = 0
    /\ start_time = 0
    /\ last_elapsed = -1
    /\ job_id = ""
    /\ submit_out = <<<<>>, "">>
    /\ max_retries = DefaultMaxRetries
    /\ attempt = 0
    /\ sleeps = <<>>
    /\ exit = NoExit
    /\ job_stuck = FALSE
    /\ job_state = ""
    /\ wait_exit = "none"
    /\ check_out = "none"
    /\ status_stdout = "none"

\* the parts a specification leaves alone stand still in one state
RunIdle == InitRunVars /\ calc_control = "no_pseudo_dir" /\ remote_dir = "none"
ConnIdle == InitConn /\ key_path /\ password

InitP == InitPool /\ RunIdle /\ ConnIdle /\ InitQueue /\ InitExt
InitR == InitPool /\ InitRunVars /\ ConnIdle /\ InitQueue /\ InitExt
InitC == InitPool /\ RunIdle /\ InitConn /\ InitQueue /\ InitExt
InitQ == InitPool /\ RunIdle /\ ConnIdle /\ InitQueue /\ InitExt
InitT == InitPool /\ RunIdle /\ ConnIdle /\ InitQueue /\ InitTools /\ InitRace
             /\ InitAuth /\ AssetsIdle /\ JobsIdle
InitA == InitPool /\ RunIdle /\ ConnIdle /\ InitQueue /\ ToolsIdle /\ InitRace
             /\ InitAuth /\ InitAssets /\ JobsIdle
InitJ == InitPool /\ RunIdle /\ ConnIdle /\ InitQueue /\ ToolsIdle /\ InitRace
             /\ InitAuth /\ AssetsIdle /\ InitJobs

PoolNext == SetupRemote \/ CloseAllConnections \/ SessionDies

SpecPool == InitP /\ [][PoolNext]_vars

CredNext == SetupRemoteAny \/ CloseAllConnections \/ SessionDies

SpecCred == InitP /\ [][CredNext]_vars

RunNext ==
    \/ RunCall \/ RunDelegated \/ RunSetup \/ RunMkdir \/ RunAsset \/ RunWriteInput
    \/ RunSendInput \/ RunSendJob \/ RunSubmit
    \/ WaitCall \/ WaitBegin \/ WaitCheck \/ WaitSqueue \/ WaitSacct \/ WaitSleep
    \/ VerifyCall \/ VerifyCheck \/ VerifyRetrieve \/ VerifyBackoff

SpecRun == InitR /\ [][RunNext]_vars

ConnNext ==
    \/ ConnectCall \/ ConnectLoop \/ ConnectReach \/ ConnectKey \/ ConnectPassword
    \/ ConnectSleep \/ RunnerClose \/ GetSftp \/ TestConnection \/ TransportDies
    \/ ManagerInit

SpecConn == InitC /\ [][ConnNext]_vars

\* run() is one sequential thread: a step that is possible is taken
QueueNext ==
    \/ SetQueueCall \/ CheckForce \/ CheckWhich \/ CheckPing
    \/ QueueInit \/ QueueWrite \/ QueueStore

SpecQueue == InitQ /\ [][QueueNext]_vars

SpecRunFair == SpecRun /\ WF_vars(RunNext)

AuthNext == AuthConnect \/ AuthUse \/ AuthClose \/ AuthDies

SpecAuth == InitP /\ [][AuthNext]_vars

RaceNext == ThreadStep \/ CloseAllConnections

SpecRace == InitP /\ [][RaceNext]_vars

AssetsNext == AssetsRun \/ AssetsTransfer \/ AssetsSendInput

SpecAssets == InitA /\ [][AssetsNext]_vars

JobsNext == JobSubmit \/ JobWaitCall \/ JobPoll

SpecJobs == InitJ /\ [][JobsNext]_vars

ToolsNext == WriteScript \/ SubmitRemoteJob \/ TransferInputs \/ ManagerSubmit

SpecTools == InitT /\ [][ToolsNext]_vars

(***************************************************************************)
(* Claims about the session pool.                                          *)
(***************************************************************************)
\* C1: for every key, the _setup_remote calls made for it since the pool was
\* last emptied, none of which failed to connect, constructed exactly one
\* RemoteAuth, called connect() exactly once (one handshake), and each of
\* them left scheduler.remote referring to the one pooled session.
C1_OneHandshakePerKey ==
    /\ \A k \in Keys :
          (hist[k].calls >= 1 /\ ~hist[k].failed) =>
              /\ hist[k].constructed = 1
              /\ hist[k].connects = 1
              /\ remote_sessions[k] # NoSession
              /\ hist[k].handed = {remote_sessions[k]}
              /\ auths[remote_sessions[k]].handshakes = 1
    /\ (last_setup.result = "ok" /\ hist[last_setup.key].calls >= 1) =>
          remote[last_setup.inst] = remote_sessions[last_setup.key]

\* Two scheduler instances were set up for one key and share the session.
C1_Witness ==
    \E k \in Keys :
        /\ hist[k].calls >= 2
        /\ ~hist[k].failed
        /\ remote_sessions[k] # NoSession
        /\ \A i \in Insts : remote[i] = remote_sessions[k]

\* C2: a session whose transport is no longer alive is never handed to a
\* scheduler by _setup_remote (it is probed, discarded and replaced).
C2_DeadSessionNeverHandedOut ==
    last_setup.result = "ok" => last_setup.live

\* C11: sessions are independent per key. A _setup_remote call for one key
\* leaves the pool entry of every other key as it was (not created, replaced
\* or removed), and two different keys of the pool hold two different
\* sessions, each for its own host and user and authenticated exactly once.
C11_IndependentKeys ==
    /\ [](\A k1, k2 \in Keys :
            (k1 # k2 /\ remote_sessions[k1] # NoSession
                     /\ remote_sessions[k2] # NoSession) =>
                /\ remote_sessions[k1] # remote_sessions[k2]
                /\ auths[remote_sessions[k1]].handshakes = 1
                /\ auths[remote_sessions[k1]].host = k1[1]
                /\ auths[remote_sessions[k1]].user = k1[2])
    /\ [][numCalls' # numCalls =>
            \A k \in Keys :
                k # last_setup'.key => remote_sessions'[k] = remote_sessions[k]]_vars

\* Two sessions are pooled, for keys that differ in host and for keys that
\* differ in user, and the last call created the second one.
C11_Witness ==
    /\ last_setup.result = "ok"
    /\ last_setup.handshake
    /\ \E k \in Keys :
          /\ k # last_setup.key
          /\ (k[1] # last_setup.key[1] \/ k[2] # last_setup.key[2])
          /\ remote_sessions[k] # NoSession
          /\ remote_sessions[last_setup.key] # NoSession
          /\ auths[remote_sessions[k]].live

\* C12: when close_all_connections was called, close() was called on every
\* session the pool held, the pool is empty and the class attribute
\* _last_remote_path is None; the next _setup_remote, whatever its key, does
\* not reuse a session: when it succeeds it has performed a handshake.
C12_CloseAllEmptiesPool ==
    /\ [](last_close # "none" =>
            /\ \A k \in Keys : remote_sessions[k] = NoSession
            /\ cls_last_remote_path = None
            /\ \A s \in SessionIds :
                  (s <= numAuth /\ auths[s].handshakes = 1) => auths[s].closed)
    /\ [][(last_close # "none" /\ numCalls' # numCalls /\ last_setup'.result = "ok")
            => last_setup'.handshake]_vars

(***************************************************************************)
(* Claims about run(), the poller and the retrieval.                       *)
(***************************************************************************)
\* the positions of ops that hold one of the operations in S
Positions(S) == {i \in 1..Len(ops) : ops[i] \in S}

Retrieves == {"retrieve_ok", "retrieve_fail"}

\* the stage of run() an operation belongs to
Stage(op) ==
    CASE op = "setup" -> 1
      [] op = "mkdir" -> 2
      [] op \in {"send_asset", "sha256"} -> 3
      [] op = "send_input" -> 4
      [] op = "send_job" -> 5
      [] op = "submit" -> 6
      [] op = "squeue" -> 7
      [] op = "sacct" -> 8
      [] op = "check" -> 9
      [] op \in Retrieves -> 10
      [] OTHER -> 0

\* C3: in one remote run() the remote operations occur in the order session
\* setup, uploads (assets, input file, job script), one submission command,
\* polling (only with a job id), output check, retrieval; the submission comes
\* after the upload of the job script, and the output check and the retrieval
\* come after the polling has returned.
C3_RunOrder ==
    entry = "run" =>
        /\ \A i, j \in 1..Len(ops) : i < j => Stage(ops[i]) <= Stage(ops[j])
        /\ \A i \in 1..Len(ops) : Stage(ops[i]) > 0
        /\ Cardinality(Positions({"submit"})) <= 1
        /\ Cardinality(Positions({"setup"})) <= 1
        /\ Cardinality(Positions({"check"})) <= 1
        /\ Positions({"submit"}) # {} =>
              /\ Positions({"setup"}) # {}
              /\ Positions({"mkdir"}) # {}
              /\ Positions({"send_input"}) # {}
              /\ Positions({"send_job"}) # {}
        /\ Positions({"squeue", "sacct"}) # {} =>
              /\ Positions({"submit"}) # {}
              /\ job_id # ""
        /\ Positions({"check"}) # {} =>
              /\ Positions({"submit"}) # {}
              /\ job_id # "" => (wait_exit = "returned" /\ Positions({"squeue"}) # {})
        /\ Positions(Retrieves) # {} => Positions({"check"}) # {}

\* a run() that polled a job and retrieved its output has returned
C3_Witness ==
    /\ entry = "run"
    /\ pc = "done"
    /\ exit.kind = "returned"
    /\ job_id # ""
    /\ Positions({"send_asset"}) # {}
    /\ Positions({"squeue"}) # {}
    /\ Positions({"retrieve_ok"}) # {}

\* C4: _wait_for_slurm_completion returns normally only for an accounting
\* state in {COMPLETED, COMPLETING}; every other outcome of the accounting
\* query (another state, or no state at all) raises the job-failed error
\* naming the job id and the state.
C4_ReturnsOnlyOnSuccess ==
    /\ wait_exit = "returned" => job_state \in {"COMPLETED", "COMPLETING"}
    /\ wait_exit = "job_failed" =>
          /\ exit.kind = "job_failed"
          /\ exit.job = job_id
          /\ exit.state = job_state

\* C5: the timeout check comes before the live-queue query of its iteration,
\* so no query is made once the check has seen the timeout exceeded; and a
\* wait whose job never leaves the live queue ends in the timeout error that
\* names the job id and job_timeout.
C5_TimeoutRaised ==
    /\ pc = "raised"
    /\ exit.kind = "timeout"
    /\ exit.job = job_id
    /\ exit.timeout = queue.job_timeout

C5_Timeout ==
    /\ [](pc = "w_squeue" =>
            /\ last_elapsed = now - start_time
            /\ last_elapsed <= queue.job_timeout)
    /\ [](wait_exit = "timeout" =>
            (C5_TimeoutRaised /\ last_elapsed > queue.job_timeout))
    /\ ((pc = "w_check" /\ job_stuck) ~> C5_TimeoutRaised)

\* a job that was seen in the queue at least twice, then timed out
C5_Witness ==
    /\ job_stuck
    /\ C5_TimeoutRaised
    /\ Cardinality(Positions({"squeue"})) >= 2

\* C6: whatever way _wait_for_slurm_completion ends, the remote commands it
\* issued are squeue and sacct only: no cancel command is sent.
C6_NoCancel ==
    /\ \A i \in 1..Len(ops) : ops[i] # "scancel"
    /\ entry = "wait" => \A i \in 1..Len(ops) : ops[i] \in {"squeue", "sacct"}
    /\ entry = "run" =>
          \A i \in 1..Len(ops) :
              (Positions({"submit"}) # {} /\ \A j \in Positions({"submit"}) : j < i)
                  => ops[i] \in {"squeue", "sacct", "check"} \cup Retrieves

\* a wait that polled the queue and then timed out
C6_Witness ==
    /\ entry = "wait"
    /\ wait_exit = "timeout"
    /\ Positions({"squeue"}) # {}

\* C7: with max_retries = M >= 1, retrieve_file is called at most M times; a
\* first success at call k ends the operation after exactly k calls; M failed
\* calls raise the retrieval error naming M attempts; the wait before retry i
\* is 2^(i-1) seconds and no wait follows a success or the last failure.
C7_Retries ==
    max_retries >= 1 =>
        LET R == Cardinality(Positions(Retrieves)) IN
        /\ R <= max_retries
        /\ Cardinality(Positions({"retrieve_ok"})) <= 1
        /\ \A i \in Positions({"retrieve_ok"}) : i = Len(ops)
        /\ \A i \in 1..Len(sleeps) : sleeps[i] = 2 ^ (i - 1)
        /\ Len(sleeps) \in {R - 1, R}
        /\ (check_out \notin {"none", "raised", "missing\n"} /\ pc \in {"done", "raised"}) =>
              /\ R >= 1
              /\ Len(sleeps) = R - 1
              /\ \/ /\ pc = "done" /\ exit.kind = "returned" /\ exit.attempts = R
                    /\ ops[Len(ops)] = "retrieve_ok"
                 \/ /\ pc = "raised" /\ exit.kind = "retrieval_failed"
                    /\ exit.attempts = max_retries /\ R = max_retries
                    /\ Positions({"retrieve_ok"}) = {}

\* the retrieval succeeded at the third of three calls
C7_Witness ==
    /\ max_retries = 3
    /\ pc = "done"
    /\ exit.kind = "returned"
    /\ exit.attempts = 3
    /\ sleeps = <<1, 2>>

\* C8: when the existence check reports the output file missing, the
\* file-not-found error naming the remote path is raised and retrieve_file
\* is never called; every retrieve_file call follows the check.
C8_CheckBeforeRetrieve ==
    /\ check_out = "missing\n" =>
          /\ pc = "raised"
          /\ exit.kind = "not_found"
          /\ exit.path = remote_path[run_inst]
          /\ exit.path # None
          /\ Positions(Retrieves) = {}
          /\ ops[Len(ops)] = "check"
    /\ \A i \in Positions(Retrieves) : \E j \in Positions({"check"}) : j < i

\* the check reported the file missing
C8_Witness ==
    /\ check_out = "missing\n"
    /\ exit.kind = "not_found"

(***************************************************************************)
(* Claims about RemoteRunner._connect.                                     *)
(***************************************************************************)
LogPositions(kind) == {i \in 1..Len(c_log) : c_log[i][1] = kind}

AuthOk == {<<"key", "ok">>, <<"password", "ok">>}

\* C9: within an attempt the reachability test comes before any
\* authentication; key authentication comes first when a key is configured;
\* password authentication is tried only when a password is configured and
\* either no key is configured or key authentication just failed with a
\* missing key file or an SSH error; any other failure goes to the
\* wait-and-retry path without password authentication.
C9_AuthOrder ==
    \A i \in 1..Len(c_log) :
        /\ c_log[i][1] = "key" =>
              /\ key_path
              /\ i > 1 /\ c_log[i - 1] = <<"reach", "ok">>
        /\ c_log[i][1] = "password" =>
              /\ password
              /\ i > 1
              /\ \/ ~key_path /\ c_log[i - 1] = <<"reach", "ok">>
                 \/ /\ key_path
                    /\ c_log[i - 1] \in {<<"key", "FileNotFoundError">>,
                                         <<"key", "SSHException">>}
                    /\ i > 2 /\ c_log[i - 2] = <<"reach", "ok">>
        /\ (c_log[i] = <<"reach", "ok">> /\ key_path /\ i < Len(c_log)) =>
              c_log[i + 1][1] = "key"
        /\ (c_log[i] \in {<<"reach", "fail">>, <<"key", "other">>} /\ i < Len(c_log)) =>
              c_log[i + 1] = <<"sleep", "">>
        /\ c_log[i][1] = "reach" => (i > 1 /\ c_log[i - 1] = <<"attempt", "">>)

\* password authentication succeeded after key authentication failed with an
\* SSH error
C9_Witness ==
    \E i \in 1..Len(c_log) :
        /\ i > 1
        /\ c_log[i] = <<"password", "ok">>
        /\ c_log[i - 1] = <<"key", "SSHException">>

\* C10: _connect makes at most retries attempts; it returns as soon as an
\* attempt authenticates; when every attempt failed it made exactly retries
\* attempts, slept after each failed one, and raises the ConnectionError
\* that names the host and retries.
C10_BoundedAttempts ==
    LET N == Cardinality(LogPositions("attempt")) IN
    /\ N <= c_retries
    /\ \A i \in 1..Len(c_log) :
          /\ c_log[i] \in AuthOk =>
                (i = Len(c_log) /\ c_exit.kind = "returned")
          /\ (c_log[i][1] = "attempt" /\ \E j \in LogPositions("attempt") : j < i) =>
                c_log[i - 1] = <<"sleep", "">>
    /\ c_exit.kind = "returned" =>
          c_log[Len(c_log)] \in AuthOk \cup {<<"probe", "ok">>}
    /\ c_exit.kind = "ConnectionError" =>
          /\ N = c_retries
          /\ Cardinality(LogPositions("sleep")) = c_retries
          /\ c_exit.host = RunnerHost
          /\ c_exit.attempts = c_retries
          /\ \A i \in 1..Len(c_log) : c_log[i] \notin AuthOk
    /\ c_exit.kind \in {"none", "returned", "ConnectionError"}

\* two attempts failed and the ConnectionError was raised
C10_Witness ==
    /\ c_exit.kind = "ConnectionError"
    /\ c_retries = 2
    /\ Cardinality(LogPositions("attempt")) = 2
    /\ Cardinality(LogPositions("password")) >= 1

(***************************************************************************)
(* Claims about the steps of run(): directories, errors, submission.       *)
(***************************************************************************)
Uploads == {"send_asset", "send_input", "send_job"}

\* C13: in run(), every upload into the remote working directory or its
\* pseudo subfolder comes after a completed mkdir -p that covers it, so the
\* directory is there when the upload starts; and the mkdir of a run() whose
\* directory already existed succeeded, leaving run() to go on.
C13_DirectoryBeforeUpload ==
    entry = "run" =>
        /\ \A i \in Positions(Uploads) : \E j \in Positions({"mkdir"}) : j < i
        /\ Positions(Uploads) # {} => remote_dir = "both"
        /\ mkdir_res # NoMkdir =>
              /\ mkdir_res.status = 0
              /\ remote_dir = "both"
              /\ pc = "raised" => Positions(Uploads) # {}

\* run() met the directory of an earlier run, and has uploaded an asset
C13_Witness ==
    /\ entry = "run"
    /\ pc = "r_write_input"
    /\ mkdir_res.before = "both"
    /\ Positions({"send_asset"}) # {}

LastOp == IF ops = <<>> THEN "" ELSE ops[Len(ops)]

\* C14: a failure of the session setup, and a timeout or job-failed error of
\* the poller, leave run() as the error they are, and run() makes no remote
\* operation afterwards: nothing after the failed setup, no output check or
\* retrieval after the poll error.
C14_ErrorsPropagate ==
    entry = "run" =>
        /\ (Positions({"setup"}) # {} /\ last_setup.result # "ok") =>
              /\ pc = "raised"
              /\ exit.kind = last_setup.result
              /\ exit.kind \in {"connect_error", "value_error"}
              /\ ops = <<"setup">>
        /\ wait_exit \in {"timeout", "job_failed"} =>
              /\ pc = "raised"
              /\ exit.kind = wait_exit
              /\ exit.job = job_id
              /\ wait_exit = "timeout" =>
                    (exit.timeout = queue.job_timeout /\ LastOp = "squeue")
              /\ wait_exit = "job_failed" =>
                    (exit.state = job_state /\ LastOp = "sacct")
              /\ Positions({"check"} \cup Retrieves) = {}

\* run() was left by the job-failed error of its poller
C14_Witness ==
    /\ entry = "run"
    /\ pc = "raised"
    /\ wait_exit = "job_failed"
    /\ exit.state = "FAILED"
    /\ Positions({"submit"}) # {}

NonBenignStderrs == {"sbatch: error"}

\* C15: when the submission command wrote stderr that is not known to be
\* benign, run() raises a submission error, and the submission is its last
\* remote operation (no polling, output check or retrieval).
C15_StderrFailsSubmission ==
    (entry = "run" /\ Positions({"submit"}) # {} /\ submit_out[2] \in NonBenignStderrs) =>
        /\ pc = "raised"
        /\ exit.kind = "submission_error"
        /\ LastOp = "submit"

RECURSIVE FirstJobId(_)
\* the digits of the leftmost "Submitted batch job <digits>" of a stdout
FirstJobId(out) ==
    IF Len(out) < 4 THEN ""
    ELSE IF SubSeq(out, 1, 3) = <<"Submitted", "batch", "job">> /\ out[4] \in DigitWords
         THEN out[4]
         ELSE FirstJobId(Tail(out))

Polling == {"squeue", "sacct"}

\* C16: a slurm run() whose submission returned polls exactly when the
\* stdout holds "Submitted batch job <digits>", with the first such digits
\* as job id; without a job id it logs one warning, sends no polling command
\* and goes on to the output file check.
C16_PollsIffJobId ==
    (entry = "run" /\ queue.scheduler = "slurm" /\ Positions({"submit"}) # {}) =>
        /\ job_id = FirstJobId(submit_out[1])
        /\ job_id # "" =>
              /\ pc \in {"w_begin", "w_check", "w_squeue"} \/ Positions({"squeue"}) # {}
              /\ logged = <<>>
        /\ job_id = "" =>
              /\ Positions(Polling) = {}
              /\ logged = <<"no_job_id">>
              /\ pc = "v_check" \/ Positions({"check"}) # {}

\* C17: every file run() uploads (asset, input file, job script) has its
\* remote checksum taken right after the upload, before the submission.
C17_UploadsVerified ==
    (entry = "run" /\ Positions({"submit"}) # {}) =>
        \A i \in Positions(Uploads) :
            /\ i + 1 <= Len(ops)
            /\ ops[i + 1] = "sha256"
            /\ \A j \in Positions({"submit"}) : i + 1 < j

\* the warnings.warn calls made for pseudopotential n
WarningsFor(n) == {i \in 1..Len(warnings) : warnings[i][2] = n}

C19_MissingAssetFatal ==
    (entry = "run" /\ \E n \in 1..Len(assets) : ~assets[n].found) =>
        /\ pc = "raised"
        /\ exit.kind = "asset_not_found"
        /\ Positions({"send_input", "send_job", "submit"}) = {}

(***************************************************************************)
(* Claims about set_queue.                                                 *)
(***************************************************************************)
CheckFailures == {"no_sbatch", "CalledProcessError", "FileNotFoundError", "PermissionError"}

\* C20: set_queue for slurm with local or unspecified execution and no force
\* override looks for sbatch and pings the controller before it creates a
\* scheduler or writes a script; when either check fails, however it fails,
\* set_queue raises the scheduler-unavailable error, having created no
\* scheduler and written no script, with calc.scheduler and calc.command as
\* they were and the queue still asking for slurm. For remote execution
\* nothing is checked.
C20_SlurmCheckedLocally ==
    /\ (sq_queue.scheduler = "slurm" /\ sq_queue.execution # "remote"
            /\ sq_check # "forced" /\ "get_scheduler" \in {sq_ops[i] : i \in 1..Len(sq_ops)}) =>
          /\ sq_check = "ok"
          /\ SubSeq(sq_ops, 1, 3) = <<"which", "ping", "get_scheduler">>
    /\ sq_check \in CheckFailures =>
          /\ sq_pc = "raised"
          /\ sq_exit.kind = "RuntimeError: SLURM scheduler is not available"
          /\ ~sq_written
          /\ \A i \in 1..Len(sq_ops) : sq_ops[i] \in {"which", "ping"}
          /\ calc_scheduler = sq_before.scheduler
          /\ calc_command = sq_before.command
          /\ sq_queue.scheduler = "slurm"
    /\ sq_queue.execution = "remote" =>
          /\ sq_check = "not_called"
          /\ \A i \in 1..Len(sq_ops) : sq_ops[i] \notin {"which", "ping"}

Rank(line) ==
    CASE line = "#!/bin/bash" -> 1
      [] line \in {"prepend 1", "prepend 2"} -> 2
      [] line \in {"module purge", "module load qe", "module load mpi"} -> 3
      [] line = "rc 1" -> 4
      [] line = "command" -> 5
      [] line = "postpend 1" -> 6
      [] OTHER -> 0

\* the four blocks of the script: the environment setup is ranks 2 to 4
BlockOf(r) == IF r \in {2, 3, 4} THEN 2 ELSE r

NonBlank(str) == SelectSeq(str, LAMBDA line : line # "")

\* C22: the job script written by write_script holds exactly the non-blank
\* lines of the header, the custom pre-commands, the module commands (when
\* modules are used and listed), the profile content (when the profile
\* exists), the main command and the post-execution block, in that order,
\* and a blank line lies between the lines of any two different blocks
\* among header, environment setup, main command and post-execution block.
C22_ScriptBlockOrder ==
    (tool_in.op = "write_script" /\ tool_out # None) =>
        LET q == tool_in.queue
            text == tool_out.script
            mods == IF q.use_modules /\ q.modules.is_list /\ q.modules.items # <<>>
                    THEN <<"module purge">>
                             \o [i \in 1..Len(q.modules.items) |->
                                    ModuleLoad(q.modules.items[i])]
                    ELSE <<>>
        IN  /\ NonBlank(text) =
                  <<"#!/bin/bash">>
                  \o (IF q.prepend # None THEN NonBlank(q.prepend) ELSE <<>>)
                  \o mods
                  \o (IF q.xespressorc.named /\ q.xespressorc.exists
                      THEN NonBlank(q.xespressorc.text) ELSE <<>>)
                  \o <<"command">>
                  \o (IF q.postpend # None THEN NonBlank(q.postpend) ELSE <<>>)
            /\ \A i, j \in 1..Len(text) :
                  (i < j /\ Rank(text[i]) > 0 /\ Rank(text[j]) > 0) =>
                      /\ Rank(text[i]) <= Rank(text[j])
                      /\ BlockOf(Rank(text[i])) # BlockOf(Rank(text[j])) =>
                            \E k \in (i + 1)..(j - 1) : text[k] = ""

\* a script with all six kinds of lines was written
C22_Witness ==
    /\ tool_in.op = "write_script"
    /\ tool_out # None
    /\ {Rank(tool_out.script[i]) : i \in 1..Len(tool_out.script)} = 0..6
    /\ Len(tool_in.queue.modules.items) = 2

FirstWord(t) ==
    LET idx == {i \in 1..Len(t) : t[i] \notin {" ", "\n"}}
    IN IF idx = {} THEN "" ELSE t[CHOOSE i \in idx : \A j \in idx : i <= j]

SubmitDone ==
    /\ tool_in.op = "submit_remote_job"
    /\ tool_out # None
    /\ tool_in.connect = "returned"

\* C24 as stated: submit_remote_job raises the submission error exactly when
\* the stderr of the submission is non-empty and does not start with
\* "Loading".
C24_RaisesOnRawStderr ==
    SubmitDone =>
        (tool_out.exit = "RuntimeError"
            <=> (tool_in.stderr # <<>> /\ Head(tool_in.stderr) # "Loading"))

\* C24, amended: submit_remote_job raises the submission error exactly when
\* the stderr of the submission, stripped of surrounding whitespace, is
\* non-empty and does not start with "Loading"; otherwise it returns the
\* stripped stdout. It executes exactly one command, calc.command when a
\* calculator with a command is given and "sbatch .job_file" otherwise.
C24_RaisesOnStrippedStderr ==
    SubmitDone =>
        /\ tool_out.exit = "RuntimeError"
              <=> FirstWord(tool_in.stderr) \notin {"", "Loading"}
        /\ tool_out.exit # "RuntimeError" =>
              /\ tool_out.exit = "returned"
              /\ tool_out.value \in {<<>>, <<"ok">>,
                                     <<"Submitted", " ", "batch", " ", "job", " ", "4711">>}
              /\ tool_out.value = <<>> <=> FirstWord(tool_in.stdout) = ""
              /\ tool_out.value = <<"ok">> <=> FirstWord(tool_in.stdout) = "ok"
        /\ tool_out.commands =
              <<IF tool_in.calc = "with_command" THEN "calc.command"
                ELSE "sbatch .job_file">>

\* a submission whose stderr is a module-load message between newlines
\* returned the stripped stdout
C24_Witness ==
    /\ SubmitDone
    /\ tool_in.stderr = <<"\n", "Loading", " ", "qe", "\n">>
    /\ tool_in.stdout = <<" ", "ok", " ">>
    /\ tool_out.exit = "returned"
    /\ tool_out.value = <<"ok">>
    /\ tool_in.calc = "with_command"

\* C25: transfer_inputs issues the remote mkdir -p exactly once and uploads
\* every top-level regular file of the local directory into the remote
\* directory, and from subdirectories only the regular files directly inside
\* pseudos, into the remote pseudos folder.
C25_TopLevelFilesUploaded ==
    (tool_in.op = "transfer_inputs" /\ tool_out # None
            /\ tool_in.connect = "returned") =>
        /\ tool_out.commands = <<"mkdir -p">>
        /\ tool_out.exit = "returned"
        /\ tool_out.puts =
              {<<".", f>> : f \in tool_in.files}
                  \cup (IF tool_in.pseudos.present
                        THEN {<<"pseudos", f>> : f \in tool_in.pseudos.files}
                        ELSE {})

(***************************************************************************)
(* Claims about _setup_remote under threads.                               *)
(***************************************************************************)
\* the session a thread inserted last under key k (0 when none did)
LastInserted(k) ==
    LET idx == {n \in 1..Len(inserts) : inserts[n][1] = k}
    IN IF idx = {} THEN NoSession
       ELSE inserts[CHOOSE n \in idx : \A m \in idx : n >= m][2]

\* C26: with threads in _setup_remote and no lock, an entry of the pool is
\* always the session inserted last under its key, whatever was inserted
\* there before, and no step closes or changes a session that is outside
\* the pool: a session displaced by the insertion of another thread is not
\* closed by close_all_connections.
C26_LastInsertWins ==
    /\ [](\A k \in Keys :
             remote_sessions[k] # NoSession => remote_sessions[k] = LastInserted(k))
    /\ [][\A s \in SessionIds :
             (s <= numAuth /\ s \notin Pooled) => auths'[s] = auths[s]]_vars

\* two threads authenticated for the same absent key; close_all_connections
\* returned, having closed the session inserted last, and the session
\* inserted first is still connected and was never closed
C26_Witness ==
    \E s1, s2 \in SessionIds :
        /\ s1 # s2 /\ s1 <= numAuth /\ s2 <= numAuth
        /\ Len(inserts) = 2
        /\ inserts[1][1] = inserts[2][1]
        /\ inserts[1][2] = s1 /\ inserts[2][2] = s2
        /\ last_close = "returned"
        /\ Pooled = {}
        /\ auths[s1].live /\ ~auths[s1].closed
        /\ auths[s2].closed /\ ~auths[s2].live

(***************************************************************************)
(* Claims about the polling loop.                                          *)
(***************************************************************************)
\* C27 as stated: the accounting query is issued only after a live-queue
\* query whose output was empty.
C27_AccountingAfterEmptyOutput ==
    pc = "w_sacct" => status_stdout = ""

\* C27, amended: the poller goes on to the accounting query exactly when the
\* output of the live-queue query is empty or whitespace only, and sleeps
\* otherwise; the accounting query is issued at most once, right after a
\* live-queue query, and with it the poller returns or raises, having issued
\* no further live-queue or accounting query; it returns only after the
\* accounting query.
C27_PollerStateMachine ==
    /\ pc = "w_sacct" =>
          /\ status_stdout \in {"", " \n"}
          /\ ops # <<>> /\ ops[Len(ops)] = "squeue"
    /\ pc = "w_sleep" =>
          /\ status_stdout \in {"RUNNING\n", "PENDING\n"}
          /\ wait_exit = "none"
          /\ "sacct" \notin {ops[i] : i \in 1..Len(ops)}
    /\ Cardinality({i \in 1..Len(ops) : ops[i] = "sacct"}) <= 1
    /\ \A i \in 1..Len(ops) :
          ops[i] = "sacct" =>
              /\ i > 1 /\ ops[i - 1] = "squeue"
              /\ wait_exit \in {"returned", "job_failed", "remote_error"}
              /\ \A j \in (i + 1)..Len(ops) : ops[j] \notin {"squeue", "sacct"}
    /\ wait_exit = "returned" => "sacct" \in {ops[i] : i \in 1..Len(ops)}

\* a wait that found the job in the queue, slept, found the queue output
\* blank, issued the accounting query and returned
C27_Witness ==
    /\ entry = "wait"
    /\ ops = <<"squeue", "squeue", "sacct">>
    /\ wait_exit = "returned"
    /\ job_state = "COMPLETED"

(***************************************************************************)
(* Claims about the remote path and failed authentication in               *)
(* _setup_remote.                                                          *)
(***************************************************************************)
\* os.path.join of the base directory and the calculator's directory as the
\* last _setup_remote read them: base and directory, or the directory alone
\* when it is absolute
JoinedPath(call) ==
    IF call.directory = "/tmp/calc3" THEN <<call.directory>>
    ELSE <<call.remote_dir, call.directory>>

\* C28: every _setup_remote call that returns, whatever calls and
\* close_all_connections came before, leaves the remote_path of the calling
\* instance equal to the join of the base directory and the calculator's
\* directory and the remote_path of every other instance as it was; the
\* value is the one the instance had before only when the previous call on
\* that instance set the same path; close_all_connections changes no
\* remote_path.
C28_RemotePathPerInstance ==
    [][/\ (numCalls' # numCalls /\ last_setup'.result = "ok") =>
              LET i == last_setup'.inst IN
              /\ remote_path'[i] = JoinedPath(last_setup')
              /\ \A j \in Insts \ {i} : remote_path'[j] = remote_path[j]
              /\ remote_path'[i] = remote_path[i] =>
                    (has_inst_last[i] /\ inst_last_remote_path[i] = JoinedPath(last_setup'))
       /\ (numCalls' = numCalls \/ last_setup'.result # "ok") =>
              remote_path' = remote_path]_vars

\* two instances were set up for the same directory, with a
\* close_all_connections in between: both have the path
C28_Witness ==
    /\ numCalls = 2
    /\ remote_path[1] = <<"/home/user", "calc1">>
    /\ remote_path[2] = <<"/home/user", "calc1">>
    /\ last_setup.result = "ok"
    /\ last_setup.handshake
    /\ Cardinality({s \in SessionIds : auths[s].closed}) = 1

\* C29: a _setup_remote call whose authentication fails ends with the error
\* and leaves the pool and every scheduler's remote as they were, no entry
\* is ever a session that failed to authenticate, and when the next call is
\* for the same key and returns, it made a handshake of its own.
C29_FailedAuthLeavesPool ==
    /\ [](\A k \in Keys :
             remote_sessions[k] # NoSession =>
                 /\ auths[remote_sessions[k]].handshakes = 1
                 /\ auths[remote_sessions[k]].sftp)
    /\ [][/\ (numCalls' # numCalls
                 /\ last_setup'.result \in {"connect_error", "value_error"}) =>
                 /\ remote_sessions' = remote_sessions
                 /\ remote' = remote
                 /\ remote_sessions[last_setup'.key] = NoSession
          /\ (numCalls' # numCalls /\ last_setup.result = "connect_error"
                 /\ last_setup'.key = last_setup.key
                 /\ last_setup'.result = "ok") =>
                 /\ last_setup'.handshake
                 /\ auths'[last_setup'.session].handshakes = 1
                 /\ last_setup'.session = numAuth']_vars

\* the handshake of a call failed and the next call, for the same key,
\* authenticated with a session of its own
C29_Witness ==
    /\ numCalls = 2
    /\ numAuth = 2
    /\ last_setup.result = "ok"
    /\ last_setup.handshake
    /\ last_setup.session = 2
    /\ auths[1].handshakes = 0
    /\ auths[1].host = auths[2].host /\ auths[1].user = auths[2].user
    /\ remote_sessions[last_setup.key] = 2

(***************************************************************************)
(* Claims about a RemoteAuth object.                                       *)
(***************************************************************************)
\* C30: whenever the client field of a RemoteAuth object is set, the object
\* has authenticated, its SFTP channel was opened and it was not closed; a
\* connect() that follows a failed connect() attempts the handshake again,
\* and so does a connect() that follows a close().
C30_ClientSetMeansSession ==
    /\ auth.client => (auth.handshakes >= 1 /\ auth.sftp /\ ~auth.closed)
    /\ \A n \in 2..Len(auth_log) :
          (auth_log[n][1] = "connect"
              /\ \/ auth_log[n - 1] = <<"connect", "RuntimeError", TRUE>>
                 \/ auth_log[n - 1] = <<"close", "returned", FALSE>>) =>
              auth_log[n][3]

(***************************************************************************)
(* Claims about the scheduler kinds, the retrieval and the assets.         *)
(***************************************************************************)
QueueKinds == {"slurm", "pbs"}

\* the job id the scheduler of that kind assigned, as its submission command
\* prints it: "Submitted batch job <id>" for slurm, "<id>.<server>" for pbs
SubmittedId(kind, out) ==
    IF kind = "pbs" THEN (IF out = <<"4711.pbs01">> THEN "4711" ELSE "")
    ELSE FirstJobId(out)

\* C31: for both queue-based kinds (slurm and pbs), a remote run() whose
\* submission printed a job id has the job id and waits for the job: the
\* output file check is made only after the wait has returned.
C31_QueueKindsWait ==
    (entry = "run" /\ queue.scheduler \in QueueKinds
                   /\ SubmittedId(queue.scheduler, submit_out[1]) # "") =>
        /\ job_id = SubmittedId(queue.scheduler, submit_out[1])
        /\ (pc = "v_check" \/ Positions({"check"}) # {}) => wait_exit = "returned"

\* C32: _verify_and_retrieve_output_file, called by run() or on its own with
\* any max_retries, returns normally only when one of its retrieve_file
\* calls succeeded.
C32_ReturnMeansRetrieved ==
    (entry \in {"run", "verify"} /\ pc = "done" /\ exit.kind = "returned") =>
        Positions({"retrieve_ok"}) # {}

\* the sessions that were authenticated and on which no close() has succeeded
OpenSessions == {s \in SessionIds : s <= numAuth /\ auths[s].handshakes = 1
                                                 /\ ~auths[s].closed}

\* C37: when close_all_connections was called and the close() of one session
\* raised, the other sessions of the pool were closed all the same and the
\* pool was emptied: no session is left in the pool, and at most the session
\* whose close() raised is still open.
C37_CloseAllSurvivesRaise ==
    last_close = "raised" =>
        /\ \A k \in Keys : remote_sessions[k] = NoSession
        /\ Cardinality(OpenSessions) <= 1

(***************************************************************************)
(* Claims about the runner's connection flag.                              *)
(***************************************************************************)
\* C35: in every state of a RemoteRunner, is_connected is true only if
\* client refers to a connection that was not closed.
C35_ConnectedMeansOpen ==
    is_connected => client \notin {"none", "closed"}

(***************************************************************************)
(* Claims about the pool key.                                              *)
(***************************************************************************)
\* C36: the pool is looked up by (host, user) alone. A _setup_remote call for
\* a key of the pool, whatever the port and the private key of its queue,
\* is handed the pooled session without a handshake and without a new
\* RemoteAuth, and that session keeps the port and the key it was
\* authenticated with: those of the queue of the call that created it.
C36_PoolKeyIgnoresPortAndKey ==
    [][numCalls' # numCalls =>
          LET k == last_setup'.key
              s == remote_sessions[k]
          IN IF s # NoSession
             THEN /\ last_setup'.result = "ok"
                  /\ last_setup'.session = s
                  /\ ~last_setup'.handshake
                  /\ remote'[last_setup'.inst] = s
                  /\ auths' = auths
                  /\ numAuth' = numAuth
                  /\ remote_sessions' = remote_sessions
             ELSE last_setup'.result = "ok" =>
                  /\ last_setup'.handshake
                  /\ remote_sessions'[k] = last_setup'.session
                  /\ auths'[last_setup'.session].port = last_setup'.cfg.port
                  /\ auths'[last_setup'.session].ssh_key = last_setup'.cfg.ssh_key]_vars

\* a call whose queue names another port and another key than the pooled
\* session was authenticated with has been handed that session
C36_Witness ==
    /\ last_setup.result = "ok"
    /\ ~last_setup.handshake
    /\ last_setup.session = remote_sessions[last_setup.key]
    /\ auths[last_setup.session].handshakes = 1
    /\ last_setup.cfg.port # auths[last_setup.session].port
    /\ last_setup.cfg.ssh_key # auths[last_setup.session].ssh_key

(***************************************************************************)
(* Claims about the assets and the input file.                             *)
(***************************************************************************)
\* the positions of the running run()'s log that hold one of the events in S
LogPos(S) == {i \in 1..Len(a_log) : a_log[i].op \in S}

\* C33: the input file that reaches the remote directory references
\* "./pseudo": before it is uploaded, run() has set CONTROL's pseudo_dir to
\* "./pseudo" and rewritten the local input file, after every asset upload
\* and every asset warning of the run, whether assets were found or not.
C33_InputReferencesInJobDir ==
    /\ a_remote_input \in {"none", InJobDir}
    /\ \A i \in LogPos({"send_input"}) :
          \E j \in LogPos({"write_input"}) :
              /\ j < i
              /\ \A m \in LogPos({"send", "warn_missing", "warn_mismatch"}) : m < j
    /\ LogPos({"write_input"}) # {} =>
          /\ a_local_input = InJobDir
          /\ a_control = InJobDir

\* the input file of a calculator whose pseudo_dir was the user's directory
\* has reached the remote directory in a run that found one asset and missed
\* another
C33_Witness ==
    /\ a_remote_input = InJobDir
    /\ LogPos({"send_input"}) # {}
    /\ LogPos({"warn_missing"}) # {}
    /\ LogPos({"send"}) # {}
    /\ a_search[Len(a_search)].control = UserDir

\* C34: every run() of the calculator reads the same explicit directory
\* from CONTROL and searches the same directories in the same order as its
\* first run() did.
C34_SearchRepeatable ==
    \A r \in 2..Len(a_search) :
        /\ a_search[r].control = a_search[1].control
        /\ a_search[r].dirs = a_search[1].dirs

\* the loop over pseudopotentials of the running run() was entered
LoopRan == Len(a_log) >= 2

\* the first of: CONTROL's pseudo_dir, the ESPRESSO_PSEUDO directory,
\* ~/espresso/pseudo/ that holds the file ("" when none does)
ExpectedSource(control, file) ==
    IF HasPseudoDir(control) /\ <<control, file>> \in a_fs THEN control
    ELSE IF a_environ # "" /\ <<a_environ, file>> \in a_fs THEN a_environ
    ELSE IF <<HomeDir, file>> \in a_fs THEN HomeDir
    ELSE ""

\* the uploads the running run() made for entry n of pseudopotentials
SendsFor(n) == {i \in LogPos({"send"}) : a_log[i].entry = n}

\* C39 as stated: a file that pseudopotentials references is uploaded once
\* per run() at most, and once when the loop ended and a location holds it.
C39_FileUploadedOnce ==
    LoopRan =>
        \A f \in AssetFiles :
            Cardinality({i \in LogPos({"send"}) : a_log[i].file = f}) <= 1

\* C39: each entry of pseudopotentials is looked up in CONTROL's pseudo_dir,
\* then the ESPRESSO_PSEUDO directory, then ~/espresso/pseudo/, and its file
\* is uploaded exactly once per run(), from the first of them that holds it,
\* to <remote_path>/pseudo/<file>; a file two entries name is uploaded for
\* each of them.
C39_EntryUploadedOnceFromFirst ==
    LoopRan =>
        LET control == a_search[Len(a_search)].control
            ended == LogPos({"write_input", "key_error"}) # {}
        IN \A n \in 1..Len(a_pseudos) :
              LET expected == ExpectedSource(control, a_pseudos[n]) IN
              /\ Cardinality(SendsFor(n)) <= 1
              /\ \A i \in SendsFor(n) :
                    /\ expected # ""
                    /\ a_log[i].file = a_pseudos[n]
                    /\ a_log[i].src = expected
                    /\ a_log[i].dst = AssetRemotePath \o <<"pseudo", a_pseudos[n]>>
              /\ (ended /\ expected # "") => Cardinality(SendsFor(n)) = 1
              /\ (ended /\ expected = "") =>
                    \E i \in LogPos({"warn_missing"}) : a_log[i].entry = n

\* a file that CONTROL's pseudo_dir does not hold and that both other
\* locations hold was uploaded from the ESPRESSO_PSEUDO directory, and two
\* entries naming one file were both uploaded
C39_Witness ==
    /\ LogPos({"write_input"}) # {}
    /\ a_search[Len(a_search)].control = UserDir
    /\ \E i \in LogPos({"send"}) :
          /\ a_log[i].src = EnvDir
          /\ <<HomeDir, a_log[i].file>> \in a_fs
          /\ <<UserDir, a_log[i].file>> \notin a_fs
    /\ \E i, j \in LogPos({"send"}) : i # j /\ a_log[i].file = a_log[j].file

(***************************************************************************)
(* Claims about job_manager.RemoteJobManager.wait_for_job.                 *)
(***************************************************************************)
\* what holds of a wait_for_job that has returned or raised
C40_Exits ==
    /\ j_pc = "returned" =>
          /\ j_exit.kind = "returned"
          /\ IsFinalStatus(j_exit.status)
          /\ j_exit.status = j_seen.last
          /\ j_exit.job_id = j_wait.job_id
          /\ j_active[j_exit.job_id] = 0
          /\ j_history[FirstEntry(j_exit.job_id)].status = j_exit.status
          /\ j_history[FirstEntry(j_exit.job_id)].completed
    /\ j_pc = "raised" =>
          /\ j_exit.kind = "TimeoutError"
          /\ j_exit.timeout > 0
          /\ j_exit.job_id = j_wait.job_id
          /\ j_now - j_start > j_exit.timeout
          /\ ~IsFinalStatus(j_seen.last)
          /\ j_active[j_exit.job_id] = j_wait.was_active
          /\ j_wait.was_active # 0 =>
                j_history[j_wait.was_active].status = "submitted"
    /\ j_wait.timeout \in {NoTimeout, 0} => j_exit.kind # "TimeoutError"

\* what holds of one poll of wait_for_job
C40_Polls ==
    (j_pc = "polling" /\ j_seen'.polls = j_seen.polls + 1) =>
        /\ IsFinalStatus(j_seen'.last) =>
              /\ j_pc' = "returned"
              /\ j_exit'.status = j_seen'.last
        /\ j_pc' = "raised" =>
              /\ j_history' = j_history
              /\ j_active' = j_active
        /\ (~IsFinalStatus(j_seen'.last) /\ j_wait.timeout \in {NoTimeout, 0}) =>
              j_pc' = "polling"

SbatchAccepted(in) ==
    /\ in.kind = "slurm"
    /\ in.connect = "returned"
    /\ ~in.mkdir_error
    /\ in.ls = "with_job"
    /\ in.available
    /\ StripText(in.stdout) = <<"Submitted", " ", "batch", " ", "job", " ", "4711">>
    /\ StripText(in.stderr) = <<>>

\* C38: submit with a slurm job script returns True and records the job id
\* in .remote_info.json whenever sbatch accepted the job; it returns False,
\* and writes no record, only when the job was not submitted.
C38_SlurmAcceptedIsRecorded ==
    (tool_in.op = "manager_submit" /\ tool_out # None /\ tool_in.kind = "slurm") =>
        /\ SbatchAccepted(tool_in) =>
              /\ tool_out.result
              /\ tool_out.info.written
              /\ tool_out.info.job_id = <<"4711">>
        /\ ~tool_out.result =>
              /\ ~tool_out.info.written
              /\ ~SbatchAccepted(tool_in)

====
